---- MODULE Spec2Model ----
(***************************************************************************)
(* A model of the Forthic interpreter of forthix/forthic-go: the operand   *)
(* stack, the module stack, module dictionaries with import and export,    *)
(* the compile/interpret toggle and the words' Execute methods.            *)
(*                                                                         *)
(* Go pointers are modelled as follows.  Modules live in the heap `mods`   *)
(* (a sequence; a *Module is its index, the app module is index 1).  Memo  *)
(* cells live in `memos`.  A *Variable is the pair <<module, name>>: every *)
(* Variable belongs to exactly one module's table.  Every other word is    *)
(* immutable once it is in a dictionary and is modelled by value.          *)
(* A Go panic is an error of class "panic": it unwinds through every       *)
(* Execute and through Run.                                                *)
(***************************************************************************)
EXTENDS Integers, Sequences, FiniteSets, TLC

VARIABLES
    interp,   \* the Interpreter struct, with the heaps its pointers lead to
    running,  \* TRUE while a call of Interpreter.Run is in progress
    script,   \* the input: one set of alternative tokens per position
    ntokens,  \* how many positions of the script have been consumed
    tokenizer,     \* a Tokenizer struct on an input of characters
    returned,      \* the tokens its NextToken has returned, in order
    tokenizerErr,  \* the error its NextToken has returned, if any
    argument,      \* what a caller of the library hands to the function it calls
    wordOptions,   \* the WordOptions the caller has made, if any
    outcome        \* the last call of the caller and what it returned

(* The fields of interp:                                                   *)
(*   stack             Interpreter.stack.items, bottom first               *)
(*   appModule         Interpreter.appModule (a module index)              *)
(*   moduleStack       Interpreter.moduleStack, bottom first               *)
(*   registeredMods    Interpreter.registeredMods: name -> module index    *)
(*   tokenizerStack    Interpreter.tokenizerStack: one record per Run      *)
(*   previousToken     Interpreter.previousToken                           *)
(*   isCompiling, isMemoDefinition, curDefinition, literalHandlers         *)
(*   mods              the heap of Module objects                          *)
(*   memos             the heap of ModuleMemoWord cells                    *)
(*   err               what the last call of the host returned, or         *)
(*                     panicked with                                       *)

lexing == <<tokenizer, returned, tokenizerErr>>
calling == <<argument, wordOptions, outcome>>
vars ==
    <<interp, running, script, ntokens, tokenizer, returned, tokenizerErr, argument,
      wordOptions, outcome>>

-----------------------------------------------------------------------------
(* Bounds of the model                                                     *)

\* length of the inputs in which every position offers the whole menu
MaxTokens == 4
\* length of the body of the second definition of the definition inputs
MaxBody == 3
\* length of the inputs that offer the module menu
MaxModTokens == 5
\* depth of the operand stacks a word is tried on
MaxTryStack == 2
\* number of calls of the Module API by the host
MaxApiCalls == 4
\* number of tokens that follow the memo definition of the memo inputs
MaxMemoUses == 4
\* number of elements of an array literal, at either level of nesting
MaxArrayLen == 2
\* number of calls by the host that makes words with error handlers
MaxHostCalls == 5
MaxLiteralCalls == 3
\* length of the inputs of the tokenizer over its whole alphabet
MaxInput == 3
\* length of what follows the opening delimiters of a triple-quoted string
MaxQuoted == 7
\* length of the inputs that gather a word
MaxWordInput == 5
\* length of the inputs that offer the variable menu
MaxVariableTokens == 5

-----------------------------------------------------------------------------
(* Values (interface{})                                                    *)

Null == [t |-> "null", v |-> 0]
StrV(s) == [t |-> "str", v |-> s]
IntV(n) == [t |-> "int", v |-> n]
BoolV(b) == [t |-> "bool", v |-> b]
ArrV(items) == [t |-> "arr", v |-> items]
TokenVal(tok) == [t |-> "token", v |-> tok]
VarRef(m, name) == [t |-> "var", v |-> <<m, name>>]
\* what a literal handler returns with ok = false
NoValue == [t |-> "none", v |-> 0]

\* a map with no key
EmptyMap == [k \in {} |-> 0]
Put(f, k, v) == [x \in (DOMAIN f) \cup {k} |-> IF x = k THEN v ELSE f[x]]

Front(s) == SubSeq(s, 1, Len(s) - 1)
Last(s) == s[Len(s)]

RECURSIVE Reverse(_)
Reverse(s) == IF s = <<>> THEN <<>> ELSE Append(Reverse(Tail(s)), Head(s))

-----------------------------------------------------------------------------
(* Errors                                                                  *)

NoErr == [class |-> "none", kind |-> "", arg |-> "", loc |-> 0]
Error(kind, arg) == [class |-> "error", kind |-> kind, arg |-> arg, loc |-> 0]
Panic(kind) == [class |-> "panic", kind |-> kind, arg |-> "", loc |-> 0]
\* ForthicError.WithLocation; location 0 is the nil location
WithLocation(e, loc) == [e EXCEPT !.loc = loc]

Failed(st) == st.err.class # "none"
Fail(st, e) == [st EXCEPT !.err = e]

-----------------------------------------------------------------------------
(* Tokens                                                                  *)

Token(type, str, loc) == [type |-> type, string |-> str, location |-> loc]
NoToken == [type |-> "nil", string |-> "", location |-> 0]

-----------------------------------------------------------------------------
(* Words                                                                   *)

NoWord == [kind |-> "nil", name |-> ""]
PushValueWord(name, value) == [kind |-> "push", name |-> name, value |-> value]
ModuleWord(name, handler) ==
    [kind |-> "native", name |-> name, handler |-> handler, errorHandlers |-> <<>>]
DefinitionWord(name, words) ==
    [kind |-> "def", name |-> name, words |-> words, errorHandlers |-> <<>>]
StartModuleWord(name) == [kind |-> "startmod", name |-> name]
EndModuleWord == [kind |-> "endmod", name |-> "}"]
EndArrayWord == [kind |-> "endarray", name |-> "]"]
ExecuteWord(name, target) == [kind |-> "exec", name |-> name, targetWord |-> target]
ModuleMemoWord(name, cell) == [kind |-> "memo", name |-> name, cell |-> cell]
ModuleMemoBangWord(name, cell) == [kind |-> "memobang", name |-> name \o "!", cell |-> cell]
ModuleMemoBangAtWord(name, cell) == [kind |-> "memobangat", name |-> name \o "!@", cell |-> cell]

-----------------------------------------------------------------------------
(* Module                                                                  *)

NewModule(name) ==
    [name |-> name, words |-> <<>>, exportable |-> <<>>, variables |-> EmptyMap,
     modules |-> EmptyMap, modulePrefixes |-> EmptyMap]

\* Module.AddWord
AddWord(m, word) == [m EXCEPT !.words = Append(@, word)]

\* Module.AddExportable
AddExportable(m, names) == [m EXCEPT !.exportable = @ \o names]

\* Module.AddExportableWord
AddExportableWord(m, word) ==
    [m EXCEPT !.words = Append(@, word), !.exportable = Append(@, word.name)]

\* Module.AddModuleWord
AddModuleWord(m, name, handler) == AddExportableWord(m, ModuleWord(name, handler))

\* Module.AddVariable: an existing variable is kept
AddVariable(m, name, value) ==
    IF name \in DOMAIN m.variables THEN m
    ELSE [m EXCEPT !.variables = Put(@, name, value)]

\* Module.RegisterModule
RegisterChild(m, moduleName, prefix, child) ==
    [m EXCEPT !.modules = Put(@, moduleName, child),
              !.modulePrefixes =
                  Put(@, moduleName,
                      (IF moduleName \in DOMAIN @ THEN @[moduleName] ELSE {})
                          \cup {prefix})]

RExportableWords(words, exportable) ==
    SelectSeq(words, LAMBDA w : \E i \in DOMAIN exportable : exportable[i] = w.name)

\* an export of every word of the module
AllWords(m) == m.words

\* Module.ExportableWords: the words whose name is in the exportable list, in order
ExportableWords(m) == RExportableWords(m.words, m.exportable)

RECURSIVE ScanWords(_, _, _)
ScanWords(words, i, wordName) ==
    IF i < 1 THEN NoWord
    ELSE IF words[i].name = wordName THEN words[i]
    ELSE ScanWords(words, i - 1, wordName)

\* a search of the dictionary that returns the oldest word with the name
FindOldestWord(m, wordName) ==
    IF \A i \in DOMAIN m.words : m.words[i].name # wordName THEN NoWord
    ELSE m.words[CHOOSE i \in DOMAIN m.words :
                     /\ m.words[i].name = wordName
                     /\ \A k \in 1..(i - 1) : m.words[k].name # wordName]

\* Module.FindDictionaryWord: from the end to the beginning
FindDictionaryWord(m, wordName) == ScanWords(m.words, Len(m.words), wordName)

\* Module.FindVariable; mi is the module's index, the owner of the Variable
FindVariable(m, mi, varName) ==
    IF varName \in DOMAIN m.variables
    THEN PushValueWord(varName, VarRef(mi, varName))
    ELSE NoWord

\* Module.FindWord
ModuleFindWord(m, mi, name) ==
    IF FindDictionaryWord(m, name) # NoWord THEN FindDictionaryWord(m, name)
    ELSE FindVariable(m, mi, name)

\* Module.Dup: words and exportable copied, variables duplicated, child
\* references shared; the prefixes are not copied
Dup(m) ==
    [name |-> m.name, words |-> m.words, exportable |-> m.exportable,
     variables |-> m.variables, modules |-> m.modules, modulePrefixes |-> EmptyMap]

\* the words Module.ImportModule adds to the host, in order
ImportedWords(words, prefix) ==
    [i \in DOMAIN words |->
        IF prefix = "" THEN words[i]
        ELSE ExecuteWord(prefix \o "." \o words[i].name, words[i])]

\* Module.ImportModule on the heap: host and module are indexes; the duplicate
\* is a new module at the end of the heap
ImportModule(heap, host, prefix, module) ==
    [Append(heap, Dup(heap[module])) EXCEPT
        ![host] = RegisterChild(
                      [@ EXCEPT !.words =
                          @ \o ImportedWords(ExportableWords(Dup(heap[module])), prefix)],
                      heap[module].name, prefix, Len(heap) + 1)]

-----------------------------------------------------------------------------
(* Interpreter: the operations below take and return the interpreter as a  *)
(* record st with one field per field of the Go struct, plus the two heaps *)
(* and err, the error or panic the operation ended with.                   *)

\* Interpreter.CurModule
CurModule(st) == Last(st.moduleStack)

\* Interpreter.StackPush
StackPush(st, val) == [st EXCEPT !.stack = Append(@, val)]

\* the location Interpreter.StackPop gives its panic
TokenizerLocation(st) ==
    IF st.tokenizerStack = <<>> THEN 0 ELSE Last(st.tokenizerStack).pos

\* Interpreter.StackPop: the interpreter after the pop; the value popped is
\* Last(st.stack).  An empty stack panics.
StackPop(st) ==
    IF st.stack = <<>>
    THEN Fail(st, WithLocation(Panic("StackUnderflow"), TokenizerLocation(st)))
    ELSE [st EXCEPT !.stack = Front(@)]

\* Interpreter.ModuleStackPush
ModuleStackPush(st, module) == [st EXCEPT !.moduleStack = Append(@, module)]

\* a pop that does not look at the depth of the module stack
ModuleStackPopUnguarded(st) == [st EXCEPT !.moduleStack = Front(@)]

\* Interpreter.ModuleStackPop: the app module at the bottom is never popped
ModuleStackPop(st) ==
    IF Len(st.moduleStack) <= 1
    THEN Fail(st, Panic("CannotPopAppModule"))
    ELSE [st EXCEPT !.moduleStack = Front(@)]

\* Interpreter.RegisterModule
RegisterModule(st, module) ==
    [st EXCEPT !.registeredMods = Put(@, st.mods[module].name, module)]

\* Interpreter.ImportModule
InterpImportModule(st, module, prefix) ==
    [RegisterModule(st, module) EXCEPT
        !.mods = ImportModule(@, st.appModule, prefix, module)]

-----------------------------------------------------------------------------
(* Literal handlers.  Lexemes are atomic strings here, so each handler is  *)
(* given by the lexemes of the inputs it accepts.                          *)

IntLexemes == <<"0", "1", "2", "3">>
FloatLexemes == {"1.5"}

ToBool(str) ==
    IF str = "TRUE" THEN BoolV(TRUE)
    ELSE IF str = "FALSE" THEN BoolV(FALSE)
    ELSE NoValue

ToFloat(str) == IF str \in FloatLexemes THEN [t |-> "float", v |-> str] ELSE NoValue

ToInt(str) ==
    IF \E i \in DOMAIN IntLexemes : IntLexemes[i] = str
    THEN IntV((CHOOSE i \in DOMAIN IntLexemes : IntLexemes[i] = str) - 1)
    ELSE NoValue

\* the lexemes of the inputs that are a zoned datetime, a date, a time; 25:00
\* has the form of a time but not its range and is none of them
ZonedLexemes == {"2025-05-24T10:15:00Z"}
DateLexemes == {"2020-06-05"}
TimeLexemes == {"9:00"}

ToZonedDateTime(str) ==
    IF str \in ZonedLexemes THEN [t |-> "zoned", v |-> str] ELSE NoValue
ToLiteralDate(str) == IF str \in DateLexemes THEN [t |-> "date", v |-> str] ELSE NoValue
ToTime(str) == IF str \in TimeLexemes THEN [t |-> "time", v |-> str] ELSE NoValue

\* handlers of the host: each accepts some lexemes, among them lexemes that a
\* built-in handler or the other handler accepts, and its value tells which
\* handler made it
CustomHandlers == {"ToTruth", "ToOverride"}
CustomLexemes(h) ==
    IF h = "ToTruth" THEN {"TRUE", "FALSE", "YES"}
    ELSE {"TRUE", "1.5", "2025-05-24T10:15:00Z", "2020-06-05", "9:00", "1"}
ToCustom(h, str) == IF str \in CustomLexemes(h) THEN [t |-> "custom", v |-> h] ELSE NoValue

ApplyHandler(h, str) ==
    CASE h = "ToBool" -> ToBool(str)
      [] h = "ToFloat" -> ToFloat(str)
      [] h = "ToZonedDateTime" -> ToZonedDateTime(str)
      [] h = "ToLiteralDate" -> ToLiteralDate(str)
      [] h = "ToTime" -> ToTime(str)
      [] h = "ToInt" -> ToInt(str)
      [] h \in CustomHandlers -> ToCustom(h, str)

\* Interpreter.registerStandardLiterals
StandardLiterals ==
    <<"ToBool", "ToFloat", "ToZonedDateTime", "ToLiteralDate", "ToTime", "ToInt">>

RECURSIVE TryHandlers(_, _, _)
TryHandlers(handlers, i, name) ==
    IF i > Len(handlers) THEN NoWord
    ELSE IF ApplyHandler(handlers[i], name) # NoValue
    THEN PushValueWord(name, ApplyHandler(handlers[i], name))
    ELSE TryHandlers(handlers, i + 1, name)

\* a registration at the end of the list
RegisterLiteralHandlerLast(st, handler) ==
    [st EXCEPT !.literalHandlers = Append(@, handler)]

\* Interpreter.RegisterLiteralHandler: at the front of the list
RegisterLiteralHandler(st, handler) ==
    [st EXCEPT !.literalHandlers = <<handler>> \o @]

\* Interpreter.findLiteralWord: the first handler that accepts the name
FindLiteralWord(st, name) == TryHandlers(st.literalHandlers, 1, name)

-----------------------------------------------------------------------------
(* Name resolution                                                         *)

\* Module.FindWord of the module at position j of the module stack
FindAt(st, j, name) == ModuleFindWord(st.mods[st.moduleStack[j]], st.moduleStack[j], name)

\* a search of the module stack that starts at the bottom
FindFromBottom(st, j, name) ==
    IF \A k \in 1..j : FindAt(st, k, name) = NoWord THEN NoWord
    ELSE FindAt(st, CHOOSE k \in 1..j : /\ FindAt(st, k, name) # NoWord
                                        /\ \A l \in 1..(k - 1) : FindAt(st, l, name) = NoWord,
                name)

RECURSIVE FindInModuleStack(_, _, _)
FindInModuleStack(st, j, name) ==
    IF j < 1 THEN NoWord
    ELSE IF FindAt(st, j, name) # NoWord THEN FindAt(st, j, name)
    ELSE FindInModuleStack(st, j - 1, name)

\* Interpreter.FindWord: the module stack from top to bottom, then the literal
\* handlers; NoWord stands for the UnknownWordError
FindWord(st, name) ==
    IF FindInModuleStack(st, Len(st.moduleStack), name) # NoWord
    THEN FindInModuleStack(st, Len(st.moduleStack), name)
    ELSE FindLiteralWord(st, name)

-----------------------------------------------------------------------------
(* Native words of the core module                                         *)

\* CoreModule.pop
NativePop(st) == StackPop(st)

\* CoreModule.dup
NativeDup(st) ==
    IF st.stack = <<>> THEN StackPop(st)
    ELSE StackPush(StackPush(StackPop(st), Last(st.stack)), Last(st.stack))

\* CoreModule.swap: with one value on the stack, that value is popped before
\* the second pop panics
NativeSwap(st) ==
    IF Len(st.stack) < 2 THEN StackPop([st EXCEPT !.stack = <<>>])
    ELSE [st EXCEPT !.stack = SubSeq(@, 1, Len(@) - 2) \o <<Last(@), @[Len(@) - 1]>>]

\* the string elements of an array value, as names
StringsOf(items) ==
    LET strs == SelectSeq(items, LAMBDA x : x.t = "str")
    IN  [i \in DOMAIN strs |-> strs[i].v]

\* strings.HasPrefix(name, "__"), on the names of the model
DunderNames == {"__x", "__"}
HasDunderPrefix(name) == name \in DunderNames

\* a lookup that creates a variable of any name
GetOrCreateVariableUnchecked(st, name) ==
    [st EXCEPT !.mods[CurModule(st)] = AddVariable(@, name, Null)]

\* a lookup that creates the missing variable in the app module
GetOrCreateVariableInApp(st, name) ==
    IF HasDunderPrefix(name) THEN Fail(st, Error("InvalidVariableName", name))
    ELSE [st EXCEPT !.mods[st.appModule] = AddVariable(@, name, Null)]

\* getOrCreateVariable: the Variable is that of the current module with the
\* name, created when missing
GetOrCreateVariable(st, name) ==
    IF HasDunderPrefix(name) THEN Fail(st, Error("InvalidVariableName", name))
    ELSE [st EXCEPT !.mods[CurModule(st)] = AddVariable(@, name, Null)]

RECURSIVE AddVariablesFrom(_, _, _)
\* the loop of CoreModule.variables: the elements that are no strings are
\* passed over, the variables added before a rejected name stay
AddVariablesFrom(st, items, i) ==
    IF i > Len(items) THEN st
    ELSE IF items[i].t # "str" THEN AddVariablesFrom(st, items, i + 1)
    ELSE IF HasDunderPrefix(items[i].v)
    THEN Fail(st, Error("InvalidVariableName", items[i].v))
    ELSE AddVariablesFrom([st EXCEPT !.mods[CurModule(st)] = AddVariable(@, items[i].v, Null)],
                          items, i + 1)

\* CoreModule.variables
NativeVariables(st) ==
    IF st.stack = <<>> THEN StackPop(st)
    ELSE IF Last(st.stack).t = "arr"
    THEN AddVariablesFrom(StackPop(st), Last(st.stack).v, 1)
    ELSE StackPop(st)

\* the Variable the operand of `!`, `@` and `!@` stands for, as the module
\* and the name: looked up in st when the operand is a string, else the
\* object itself
VariableOf(st, variable) ==
    IF variable.t = "str" THEN <<CurModule(st), variable.v>> ELSE variable.v

\* the lookup of `!`, `@` and `!@`: a string names a variable of the current
\* module, anything else has to be a Variable
LookupVariable(st, variable) ==
    IF variable.t = "str" THEN GetOrCreateVariable(st, variable.v)
    ELSE IF variable.t = "var" THEN st
    ELSE Fail(st, Panic("TypeAssertion"))

\* Variable.SetValue, Variable.GetValue
SetValue(st, ref, value) == [st EXCEPT !.mods[ref[1]].variables[ref[2]] = value]
GetValue(st, ref) == st.mods[ref[1]].variables[ref[2]]

\* the end of CoreModule.set, s1 being the interpreter after the lookup
SetIn(s1, variable, value) ==
    IF Failed(s1) THEN s1 ELSE SetValue(s1, VariableOf(s1, variable), value)

\* CoreModule.set: variable and value are popped before the lookup
NativeSet(st) ==
    IF Len(st.stack) < 2 THEN StackPop([st EXCEPT !.stack = <<>>])
    ELSE SetIn(LookupVariable([st EXCEPT !.stack = SubSeq(@, 1, Len(@) - 2)],
                              Last(st.stack)),
               Last(st.stack), st.stack[Len(st.stack) - 1])

\* the end of CoreModule.get, s1 being the interpreter after the lookup
GetIn(s1, variable) ==
    IF Failed(s1) THEN s1 ELSE StackPush(s1, GetValue(s1, VariableOf(s1, variable)))

\* CoreModule.get
NativeGet(st) ==
    IF st.stack = <<>> THEN StackPop(st)
    ELSE GetIn(LookupVariable(StackPop(st), Last(st.stack)), Last(st.stack))

\* CoreModule.setGet
NativeSetGet(st) ==
    IF Len(st.stack) < 2 THEN StackPop([st EXCEPT !.stack = <<>>])
    ELSE GetIn(SetIn(LookupVariable([st EXCEPT !.stack = SubSeq(@, 1, Len(@) - 2)],
                                    Last(st.stack)),
                     Last(st.stack), st.stack[Len(st.stack) - 1]),
               Last(st.stack))

\* CoreModule.export_word
NativeExport(st) ==
    IF st.stack = <<>> THEN StackPop(st)
    ELSE IF Last(st.stack).t = "arr"
    THEN [st EXCEPT !.stack = Front(@),
                    !.mods[CurModule(st)] = AddExportable(@, StringsOf(Last(st.stack).v))]
    ELSE StackPop(st)

\* the module name and the prefix an entry of the list stands for
EntryModuleName(name) ==
    IF name.t # "arr" THEN name.v
    ELSE IF Len(name.v) >= 1 THEN name.v[1].v ELSE ""
EntryPrefix(name) == IF name.t = "arr" /\ Len(name.v) >= 2 THEN name.v[2].v ELSE ""
\* a type assertion of the entry fails: a name or prefix that is no string
EntryPanics(name) ==
    IF name.t # "arr" THEN name.t # "str"
    ELSE \/ Len(name.v) >= 1 /\ name.v[1].t # "str"
         \/ Len(name.v) >= 2 /\ name.v[2].t # "str"

\* one round of the loop of Interpreter.UseModules
UseModule(st, name) ==
    IF EntryPanics(name) THEN Fail(st, Panic("TypeAssertion"))
    ELSE IF EntryModuleName(name) \notin DOMAIN st.registeredMods
    THEN Fail(st, Error("UnknownModule", EntryModuleName(name)))
    ELSE [st EXCEPT !.mods = ImportModule(@, st.appModule, EntryPrefix(name),
                                          st.registeredMods[EntryModuleName(name)])]

RECURSIVE UseModulesNext(_, _, _)
RECURSIVE UseModulesFrom(_, _, _)
UseModulesFrom(st, names, i) ==
    IF i > Len(names) THEN st ELSE UseModulesNext(UseModule(st, names[i]), names, i)

UseModulesNext(s1, names, i) ==
    IF Failed(s1) THEN s1 ELSE UseModulesFrom(s1, names, i + 1)

\* Interpreter.UseModules: the imports made before a failing entry stay
UseModules(st, names) == UseModulesFrom(st, names, 1)

\* CoreModule.useModules
NativeUseModules(st) ==
    IF st.stack = <<>> THEN StackPop(st)
    ELSE IF Last(st.stack).t = "arr"
    THEN UseModules(StackPop(st), Last(st.stack).v)
    ELSE StackPop(st)

RunHandler(handler, st) ==
    CASE handler = "pop" -> NativePop(st)
      [] handler = "dup" -> NativeDup(st)
      [] handler = "swap" -> NativeSwap(st)
      [] handler = "variables" -> NativeVariables(st)
      [] handler = "set" -> NativeSet(st)
      [] handler = "get" -> NativeGet(st)
      [] handler = "setGet" -> NativeSetGet(st)
      [] handler = "export_word" -> NativeExport(st)
      [] handler = "useModules" -> NativeUseModules(st)
      [] handler = "fail" -> Fail(st, Error("Test", ""))
      [] handler = "stop" -> Fail(st, Error("IntentionalStop", ""))
      [] handler = "mark" -> StackPush(st, StrV("A"))

\* CoreModule.registerWords, the words of the model
CoreModule ==
    AddModuleWord(AddModuleWord(AddModuleWord(AddModuleWord(AddModuleWord(
    AddModuleWord(AddModuleWord(AddModuleWord(AddModuleWord(
        NewModule("core"),
        "POP", "pop"), "DUP", "dup"), "SWAP", "swap"),
        "VARIABLES", "variables"), "!", "set"), "@", "get"), "!@", "setGet"),
        "EXPORT", "export_word"), "USE-MODULES", "useModules")

-----------------------------------------------------------------------------
(* Execute                                                                 *)

\* A WordErrorHandler of the host is modelled by its answer, "handled" (it
\* returns nil) or "declined" (it returns an error of its own), and by the
\* mark it leaves on the operand stack when it is invoked.
Handler(answer, mark) == [answer |-> answer, mark |-> mark]
InvokeHandler(h, st) == StackPush(st, [t |-> "mark", v |-> h.mark])

RECURSIVE TryHandlersFrom(_, _, _, _)
RECURSIVE TryEveryHandler(_, _, _, _)
\* handlers that are all invoked, also after one of them has handled the error
TryEveryHandler(e, handlers, i, st) ==
    IF i > Len(handlers)
    THEN Fail(st, IF \E k \in DOMAIN handlers : handlers[k].answer = "handled"
                  THEN NoErr ELSE e)
    ELSE TryEveryHandler(e, handlers, i + 1, InvokeHandler(handlers[i], st))

\* the loop of BaseWord.TryErrorHandlers, from handler i on
TryHandlersFrom(e, handlers, i, st) ==
    IF i > Len(handlers) THEN Fail(st, e)
    ELSE IF handlers[i].answer = "handled"
    THEN Fail(InvokeHandler(handlers[i], st), NoErr)
    ELSE TryHandlersFrom(e, handlers, i + 1, InvokeHandler(handlers[i], st))

\* handlers that are tried for the intentional stop too
TryErrorHandlersAlways(e, handlers, st) == TryHandlersFrom(e, handlers, 1, st)

\* BaseWord.TryErrorHandlers: the interpreter after the handlers, with err the
\* error it returns (NoErr when a handler has handled e)
TryErrorHandlers(e, handlers, st) ==
    IF e.kind = "IntentionalStop" THEN Fail(st, e)
    ELSE TryHandlersFrom(e, handlers, 1, st)

\* the new module StartModuleWord.Execute creates: a child of the current
\* module, registered with the interpreter when the current module is named ""
CreateModule(st, name) ==
    [st EXCEPT
        !.mods = [Append(@, NewModule(name)) EXCEPT
                     ![CurModule(st)] = RegisterChild(@, name, name, Len(st.mods) + 1)],
        !.registeredMods = IF st.mods[CurModule(st)].name = ""
                           THEN Put(@, name, Len(st.mods) + 1)
                           ELSE @]

\* a START_MODULE that creates a module at every visit
ExecuteStartModuleAnew(name, st) ==
    IF name = "" THEN ModuleStackPush(st, st.appModule)
    ELSE ModuleStackPush(CreateModule(st, name), Len(st.mods) + 1)

\* StartModuleWord.Execute
ExecuteStartModule(name, st) ==
    IF name = "" THEN ModuleStackPush(st, st.appModule)
    ELSE IF name \in DOMAIN st.mods[CurModule(st)].modules
    THEN ModuleStackPush(st, st.mods[CurModule(st)].modules[name])
    ELSE ModuleStackPush(CreateModule(st, name), Len(st.mods) + 1)

\* EndModuleWord.Execute
ExecuteEndModule(st) == ModuleStackPop(st)

RECURSIVE CollectArray(_, _)
CollectArray(st, items) ==
    IF st.stack = <<>> THEN StackPop(st)
    ELSE IF Last(st.stack).t = "token" /\ Last(st.stack).v.type = "START_ARRAY"
    THEN [st EXCEPT !.stack = Append(Front(@), ArrV(Reverse(items)))]
    ELSE CollectArray(StackPop(st), Append(items, Last(st.stack)))

\* an END_ARRAY that pushes the items in the order they were popped
ExecuteEndArrayUnreversed(st) ==
    IF Failed(CollectArray(st, <<>>)) THEN CollectArray(st, <<>>)
    ELSE [CollectArray(st, <<>>) EXCEPT
             !.stack[Len(CollectArray(st, <<>>).stack)] = ArrV(Reverse(@.v))]

\* EndArrayWord.Execute: pop to the nearest START_ARRAY token, push the items
\* in the order they were pushed
ExecuteEndArray(st) == CollectArray(st, <<>>)

RECURSIVE Execute(_, _)
RECURSIVE ExecuteWords(_, _, _)
RECURSIVE Refresh(_, _)

RECURSIVE AfterWord(_, _, _)
RECURSIVE AfterHandlers(_, _, _, _)
\* the loop of DefinitionWord.Execute, from body word i on
ExecuteWords(w, i, st) ==
    IF i > Len(w.words) THEN st
    ELSE AfterWord(w, i, Execute(w.words[i], st))

AfterWord(w, i, s1) ==
    IF ~Failed(s1) THEN ExecuteWords(w, i + 1, s1)
    ELSE IF s1.err.class = "error"
    THEN AfterHandlers(w, i, s1.err, TryErrorHandlers(s1.err, w.errorHandlers, s1))
    ELSE s1

\* a definition that returns when a handler has handled the error of a word
AfterHandlersReturn(w, i, e, s2) == IF ~Failed(s2) THEN s2 ELSE Fail(s2, e)

\* the handlers have been tried with result s2: the loop goes on when the
\* error was handled, else the error of the body word is returned
AfterHandlers(w, i, e, s2) ==
    IF ~Failed(s2) THEN ExecuteWords(w, i + 1, s2) ELSE Fail(s2, e)

\* a definition that stops after its first word
ExecuteFirstWordOnly(w, st) == IF w.words = <<>> THEN st ELSE Execute(w.words[1], st)

\* DefinitionWord.Execute
ExecuteDefinition(w, st) == ExecuteWords(w, 1, st)

\* ModuleWord.Execute, after the handler has returned s1
\* nil when the handlers have handled the error, else the error e itself
ReturnOriginal(e, s2) == IF ~Failed(s2) THEN s2 ELSE Fail(s2, e)

AfterHandler(w, s1) ==
    IF s1.err.class = "error"
    THEN ReturnOriginal(s1.err, TryErrorHandlers(s1.err, w.errorHandlers, s1))
    ELSE s1

\* ModuleWord.Execute
ExecuteModuleWord(w, st) == AfterHandler(w, RunHandler(w.handler, st))

\* a refresh that stores the value and leaves it on the stack
StoreMemoKeepingStack(cell, s1) ==
    IF Failed(s1) THEN s1
    ELSE IF s1.stack = <<>> THEN StackPop(s1)
    ELSE [s1 EXCEPT !.memos[cell].value = Last(s1.stack),
                    !.memos[cell].hasValue = TRUE]

\* ModuleMemoWord.Refresh, after the memo's word has returned s1: the value on
\* top of the stack is popped into the cell
StoreMemo(cell, s1) ==
    IF Failed(s1) THEN s1
    ELSE IF s1.stack = <<>> THEN StackPop(s1)
    ELSE [s1 EXCEPT !.stack = Front(@),
                    !.memos[cell].value = Last(s1.stack),
                    !.memos[cell].hasValue = TRUE]

\* ModuleMemoWord.Refresh
Refresh(cell, st) == StoreMemo(cell, Execute(st.memos[cell].word, st))

\* push the cached value unless the refresh failed
PushMemo(cell, s1) == IF Failed(s1) THEN s1 ELSE StackPush(s1, s1.memos[cell].value)

\* a memo that runs its body at every execution
ExecuteMemoAlways(cell, st) == PushMemo(cell, Refresh(cell, st))

\* ModuleMemoWord.Execute
ExecuteMemo(cell, st) ==
    IF st.memos[cell].hasValue THEN PushMemo(cell, st) ELSE PushMemo(cell, Refresh(cell, st))

\* ModuleMemoBangAtWord.Execute
ExecuteMemoBangAt(cell, st) == PushMemo(cell, Refresh(cell, st))

\* Word.Execute, by the word's type
Execute(word, st) ==
    CASE word.kind = "push" -> StackPush(st, word.value)
      [] word.kind = "native" -> ExecuteModuleWord(word, st)
      [] word.kind = "def" -> ExecuteDefinition(word, st)
      [] word.kind = "startmod" -> ExecuteStartModule(word.name, st)
      [] word.kind = "endmod" -> ExecuteEndModule(st)
      [] word.kind = "endarray" -> ExecuteEndArray(st)
      [] word.kind = "exec" -> Execute(word.targetWord, st)
      [] word.kind = "memo" -> ExecuteMemo(word.cell, st)
      [] word.kind = "memobang" -> Refresh(word.cell, st)
      [] word.kind = "memobangat" -> ExecuteMemoBangAt(word.cell, st)

-----------------------------------------------------------------------------
(* Token handling                                                          *)

\* the word is appended to the definition being compiled
Compile(st, word) == [st EXCEPT !.curDefinition.words = Append(@, word)]

\* a routing that executes the word in compile mode too
HandleWordExecuting(st, word, location) == Execute(word, st)

\* Interpreter.handleWord: compile the word or execute it.  (The location the
\* word is given while compiling is not part of the model.)
HandleWord(st, word, location) ==
    IF st.isCompiling THEN Compile(st, word) ELSE Execute(word, st)

\* Interpreter.handleStringToken
HandleStringToken(st, token) ==
    HandleWord(st, PushValueWord("<string>", StrV(token.string)), token.location)

\* Interpreter.handleDotSymbolToken
HandleDotSymbolToken(st, token) ==
    HandleWord(st, PushValueWord("<dot-symbol>", StrV(token.string)), token.location)

\* Interpreter.handleCommentToken
HandleCommentToken(st, token) == st

\* a START_ARRAY that is immediate: compiled and executed in compile mode
StartArrayImmediate(st, token) ==
    IF st.isCompiling
    THEN Execute(PushValueWord("<start_array_token>", TokenVal(token)),
                 Compile(st, PushValueWord("<start_array_token>", TokenVal(token))))
    ELSE Execute(PushValueWord("<start_array_token>", TokenVal(token)), st)

\* Interpreter.handleStartArrayToken
HandleStartArrayToken(st, token) ==
    HandleWord(st, PushValueWord("<start_array_token>", TokenVal(token)), token.location)

\* Interpreter.handleEndArrayToken
HandleEndArrayToken(st, token) == HandleWord(st, EndArrayWord, token.location)

\* a START_MODULE that is only compiled in compile mode
StartModuleCompiledOnly(st, token) ==
    IF st.isCompiling THEN Compile(st, StartModuleWord(token.string))
    ELSE Execute(StartModuleWord(token.string), st)

\* Interpreter.handleStartModuleToken: compiled when compiling, executed always
HandleStartModuleToken(st, token) ==
    Execute(StartModuleWord(token.string),
            IF st.isCompiling THEN Compile(st, StartModuleWord(token.string)) ELSE st)

\* Interpreter.handleEndModuleToken: compiled when compiling, executed always
HandleEndModuleToken(st, token) ==
    Execute(EndModuleWord, IF st.isCompiling THEN Compile(st, EndModuleWord) ELSE st)

\* a START_DEF that begins a definition in compile mode too
StartDefinitionUnguarded(st, token) ==
    [st EXCEPT !.curDefinition = DefinitionWord(token.string, <<>>),
               !.isCompiling = TRUE,
               !.isMemoDefinition = FALSE]

\* Interpreter.handleStartDefinitionToken
HandleStartDefinitionToken(st, token) ==
    IF st.isCompiling
    THEN Fail(st, WithLocation(Error("MissingSemicolon", ""), st.previousToken.location))
    ELSE [st EXCEPT !.curDefinition = DefinitionWord(token.string, <<>>),
                    !.isCompiling = TRUE,
                    !.isMemoDefinition = FALSE]

\* Interpreter.handleStartMemoToken
HandleStartMemoToken(st, token) ==
    IF st.isCompiling
    THEN Fail(st, WithLocation(Error("MissingSemicolon", ""), st.previousToken.location))
    ELSE [st EXCEPT !.curDefinition = DefinitionWord(token.string, <<>>),
                    !.isCompiling = TRUE,
                    !.isMemoDefinition = TRUE]

\* an installation of the memo word without its two refresh words
AddMemoWordOnly(st, module, word) ==
    [st EXCEPT
        !.memos = Append(@, [word |-> word, hasValue |-> FALSE, value |-> Null]),
        !.mods[module].words = Append(@, ModuleMemoWord(word.name, Len(st.memos) + 1))]

\* Module.AddMemoWords on the heaps: the memo and its two refresh words share
\* one new memo cell
AddMemoWords(st, module, word) ==
    LET cell == Len(st.memos) + 1
    IN  [st EXCEPT
            !.memos = Append(@, [word |-> word, hasValue |-> FALSE, value |-> Null]),
            !.mods[module].words =
                @ \o <<ModuleMemoWord(word.name, cell),
                       ModuleMemoBangWord(word.name, cell),
                       ModuleMemoBangAtWord(word.name, cell)>>]

\* an END_DEF that leaves compile mode and installs nothing
EndDefinitionWithoutInstall(st, token) ==
    IF ~st.isCompiling \/ st.curDefinition = NoWord
    THEN Fail(st, WithLocation(Error("ExtraSemicolon", ""), token.location))
    ELSE [st EXCEPT !.isCompiling = FALSE]

\* an END_DEF that looks at the current definition only, not at the mode
EndDefinitionAgain(st, token) ==
    IF st.curDefinition = NoWord
    THEN Fail(st, WithLocation(Error("ExtraSemicolon", ""), token.location))
    ELSE IF st.isMemoDefinition
    THEN [AddMemoWords(st, CurModule(st), st.curDefinition) EXCEPT !.isCompiling = FALSE]
    ELSE [st EXCEPT !.mods[CurModule(st)] = AddWord(@, st.curDefinition),
                    !.isCompiling = FALSE]

\* the words of a dictionary with the new word put into every body that has
\* a word of its name
Rebound(words, new) ==
    [i \in DOMAIN words |->
        IF words[i].kind # "def" THEN words[i]
        ELSE [words[i] EXCEPT
                 !.words = [j \in DOMAIN @ |->
                               IF @[j].name = new.name /\ @[j].kind = "def" THEN new
                               ELSE @[j]]]]

\* an END_DEF that makes the definitions compiled before refer to the new
\* word
EndDefinitionRebinding(st, token) ==
    IF ~st.isCompiling \/ st.curDefinition = NoWord
    THEN Fail(st, WithLocation(Error("ExtraSemicolon", ""), token.location))
    ELSE IF st.isMemoDefinition
    THEN [AddMemoWords(st, CurModule(st), st.curDefinition) EXCEPT !.isCompiling = FALSE]
    ELSE [st EXCEPT !.mods[CurModule(st)] =
                        AddWord([@ EXCEPT !.words = Rebound(@, st.curDefinition)],
                                st.curDefinition),
                    !.isCompiling = FALSE]

\* Interpreter.handleEndDefinitionToken: curDefinition is left as it is
HandleEndDefinitionToken(st, token) ==
    IF ~st.isCompiling \/ st.curDefinition = NoWord
    THEN Fail(st, WithLocation(Error("ExtraSemicolon", ""), token.location))
    ELSE IF st.isMemoDefinition
    THEN [AddMemoWords(st, CurModule(st), st.curDefinition) EXCEPT !.isCompiling = FALSE]
    ELSE [st EXCEPT !.mods[CurModule(st)] = AddWord(@, st.curDefinition),
                    !.isCompiling = FALSE]

\* Interpreter.handleWordToken
HandleWordToken(st, token) ==
    IF FindWord(st, token.string) = NoWord
    THEN Fail(st, Error("UnknownWord", token.string))
    ELSE HandleWord(st, FindWord(st, token.string), token.location)

\* an end of input in compile mode reported at the EOS token itself
HandleEOSTokenHere(st, token) ==
    IF st.isCompiling
    THEN Fail(st, WithLocation(Error("MissingSemicolon", ""), token.location))
    ELSE st

\* the TOKEN_EOS case of Interpreter.handleToken
HandleEOSToken(st, token) ==
    IF st.isCompiling
    THEN IF st.previousToken # NoToken
         THEN Fail(st, WithLocation(Error("MissingSemicolon", ""), st.previousToken.location))
         ELSE Fail(st, Error("MissingSemicolon", ""))
    ELSE st

\* Interpreter.handleToken
HandleToken(st, token) ==
    CASE token.type = "STRING" -> HandleStringToken(st, token)
      [] token.type = "COMMENT" -> HandleCommentToken(st, token)
      [] token.type = "START_ARRAY" -> HandleStartArrayToken(st, token)
      [] token.type = "END_ARRAY" -> HandleEndArrayToken(st, token)
      [] token.type = "START_MODULE" -> HandleStartModuleToken(st, token)
      [] token.type = "END_MODULE" -> HandleEndModuleToken(st, token)
      [] token.type = "START_DEF" -> HandleStartDefinitionToken(st, token)
      [] token.type = "START_MEMO" -> HandleStartMemoToken(st, token)
      [] token.type = "END_DEF" -> HandleEndDefinitionToken(st, token)
      [] token.type = "DOT_SYMBOL" -> HandleDotSymbolToken(st, token)
      [] token.type = "WORD" -> HandleWordToken(st, token)
      [] token.type = "EOS" -> HandleEOSToken(st, token)

\* the tokenizer of the Run in progress has produced the token at `location`
Advance(st, location) ==
    [st EXCEPT !.tokenizerStack[Len(st.tokenizerStack)].pos = location]

\* the end of a round of the loop, token handled with result s1
AfterToken(s1, token) ==
    IF s1.err.class = "panic" THEN [st |-> s1, running |-> FALSE]
    ELSE IF s1.err.class = "error" \/ token.type = "EOS"
    THEN [st |-> [s1 EXCEPT !.tokenizerStack = Front(@)], running |-> FALSE]
    ELSE [st |-> [s1 EXCEPT !.previousToken = token], running |-> TRUE]

\* One round of the loop of Interpreter.runWithTokenizer and, when the loop
\* ends, the return of Interpreter.Run, which pops the tokenizer.  A panic
\* leaves Run without the pop.  The field `running` of the result tells
\* whether the loop goes on.
RunStep(st, token) == AfterToken(HandleToken(Advance(st, token.location), token), token)

RECURSIVE RunNext(_, _, _)
RECURSIVE RunFrom(_, _, _)
RunFrom(st, tokens, i) ==
    IF i > Len(tokens) THEN st
    ELSE RunNext(RunStep(st, Token(tokens[i].type, tokens[i].string, i)), tokens, i)

RunNext(r, tokens, i) == IF r.running THEN RunFrom(r.st, tokens, i + 1) ELSE r.st

\* Interpreter.Run on an input that the tokenizer turns into `tokens` (the EOS
\* token last): the interpreter when Run returns or panics
Run(st, tokens) ==
    RunFrom([st EXCEPT !.tokenizerStack = Append(@, [pos |-> 0]), !.err = NoErr],
            tokens, 1)

-----------------------------------------------------------------------------
(* Tokenizer.  The input is a sequence of bytes, and so is the lexeme of a  *)
(* token of the tokenizer: a byte of an ASCII character is the string of   *)
(* that character, a byte above 0x7F is named by its two hexadecimal       *)
(* digits.  Positions count from 0 as in the code.  The record t has the fields of the Go     *)
(* struct that NextToken reads; the reference location is the default one  *)
(* (line 1, column 1, position 0) and streaming is off.                    *)

Whitespace == {" ", "\t", "\n", "\r", "(", ")", ","}
QuoteChars == {"\"", "'", "^"}

RECURSIVE ReplaceAll(_, _, _)
\* strings.ReplaceAll
ReplaceAll(s, old, new) ==
    IF Len(s) < Len(old) THEN s
    ELSE IF SubSeq(s, 1, Len(old)) = old
    THEN new \o ReplaceAll(SubSeq(s, Len(old) + 1, Len(s)), old, new)
    ELSE <<Head(s)>> \o ReplaceAll(Tail(s), old, new)

\* unescapeString
UnescapeString(s) ==
    ReplaceAll(ReplaceAll(s, <<"&", "l", "t", ";">>, <<"<">>),
               <<"&", "g", "t", ";">>, <<">">>)

\* NewTokenizer(inputString, nil, false)
NewTokenizer(inputString) ==
    [inputString |-> UnescapeString(inputString), inputPos |-> 0, line |-> 1, column |-> 1,
     tokenStartPos |-> 0, tokenLine |-> 0, tokenColumn |-> 0, tokenString |-> <<>>]

\* len(t.inputString) and t.inputString[index]
InputLen(t) == Len(t.inputString)
CharAt(t, index) == t.inputString[index + 1]

\* the character NextToken is at
Ch(t) == CharAt(t, t.inputPos)
AtEnd(t) == t.inputPos >= InputLen(t)

\* Tokenizer.noteStartToken
NoteStartToken(t) ==
    [t EXCEPT !.tokenStartPos = t.inputPos, !.tokenLine = t.line, !.tokenColumn = t.column]

\* Tokenizer.isWhitespace, Tokenizer.isQuote
IsWhitespace(ch) == ch \in Whitespace
IsQuote(ch) == ch \in QuoteChars

\* Tokenizer.isTripleQuote
IsTripleQuote(t, index, ch) ==
    /\ IsQuote(ch)
    /\ index + 2 < InputLen(t)
    /\ CharAt(t, index + 1) = ch
    /\ CharAt(t, index + 2) = ch

\* Tokenizer.isStartMemo
IsStartMemo(t, index) ==
    /\ index + 1 < InputLen(t)
    /\ CharAt(t, index) = "@"
    /\ CharAt(t, index + 1) = ":"

\* Tokenizer.advancePosition by one character forward
StepForward(t) ==
    IF t.inputPos < InputLen(t) /\ Ch(t) = "\n"
    THEN [t EXCEPT !.line = @ + 1, !.column = 1, !.inputPos = @ + 1]
    ELSE [t EXCEPT !.column = @ + 1, !.inputPos = @ + 1]

\* Tokenizer.advancePosition by one character backward: the line goes back
\* over a newline and the column becomes 1.  Every call follows a step
\* forward, so the position stays at 0 or above.
StepBackward(t) ==
    IF CharAt(t, t.inputPos - 1) = "\n"
    THEN [t EXCEPT !.line = @ - 1, !.column = 1, !.inputPos = @ - 1]
    ELSE [t EXCEPT !.column = @ - 1, !.inputPos = @ - 1]

RECURSIVE AdvancePosition(_, _)
\* Tokenizer.advancePosition
AdvancePosition(t, numChars) ==
    IF numChars = 0 THEN t
    ELSE IF numChars > 0 THEN AdvancePosition(StepForward(t), numChars - 1)
    ELSE AdvancePosition(StepBackward(t), numChars + 1)

\* Tokenizer.getTokenLocation
GetTokenLocation(t) ==
    [line |-> t.tokenLine, column |-> t.tokenColumn, startPos |-> t.tokenStartPos,
     endPos |-> t.tokenStartPos + Len(t.tokenString)]

\* the bytes above 0x7F of the model, and the UTF-8 encoding of the rune
\* rune(b) of such a byte b, the code point U+0080..U+00FF of the same number
HighBytes == {"C3", "A9"}
EncodeRune(ch) ==
    IF ch = "C3" THEN <<"C3", "83">>
    ELSE IF ch = "A9" THEN <<"C2", "A9">>
    ELSE <<ch>>

\* t.tokenString.WriteRune(ch), ch being rune(t.inputString[i]), the rune of
\* one byte of the input
WriteRune(t, ch) == [t EXCEPT !.tokenString = @ \o EncodeRune(ch)]

\* what NextToken returns, with the tokenizer it leaves: a token
Returned(t, type, str) ==
    [t |-> t, token |-> Token(type, str, GetTokenLocation(t)), err |-> NoErr]
ReturnToken(t, type) == Returned(t, type, t.tokenString)

\* what NextToken returns, with the tokenizer it leaves: an error located at
\* the start noted last
TokenizerError(t, message) ==
    [t |-> t, token |-> NoToken,
     err |-> WithLocation(Error("Tokenizer", message),
                          [line |-> t.tokenLine, column |-> t.tokenColumn])]

RECURSIVE GatherComment(_)
\* the loop of Tokenizer.transitionFromCOMMENT: the newline that ends the
\* comment is part of the lexeme and is stepped back over
GatherComment(t) ==
    IF AtEnd(t) THEN ReturnToken(t, "COMMENT")
    ELSE IF Ch(t) = "\n"
    THEN ReturnToken(AdvancePosition(AdvancePosition(WriteRune(t, Ch(t)), 1), -1),
                     "COMMENT")
    ELSE GatherComment(AdvancePosition(WriteRune(t, Ch(t)), 1))

\* Tokenizer.transitionFromCOMMENT
TransitionFromCOMMENT(t) == GatherComment(NoteStartToken(t))

RECURSIVE GatherDefinitionName(_, _)
\* Tokenizer.gatherDefinitionName, then the token of the given type
GatherDefinitionName(t, type) ==
    IF AtEnd(t) THEN ReturnToken(t, type)
    ELSE IF IsWhitespace(Ch(t)) THEN ReturnToken(AdvancePosition(t, 1), type)
    ELSE IF IsQuote(Ch(t))
    THEN TokenizerError(AdvancePosition(t, 1), "Definition names can't have quotes in them")
    ELSE IF Ch(t) \in {"[", "]", "{", "}"}
    THEN TokenizerError(AdvancePosition(t, 1),
                        "Definition names can't have '" \o Ch(t) \o "' in them")
    ELSE GatherDefinitionName(WriteRune(AdvancePosition(t, 1), Ch(t)), type)

\* Tokenizer.transitionFromGATHER_DEFINITION_NAME
TransitionFromGATHER_DEFINITION_NAME(t) ==
    GatherDefinitionName(NoteStartToken(t), "START_DEF")

\* Tokenizer.transitionFromGATHER_MEMO_NAME
TransitionFromGATHER_MEMO_NAME(t) ==
    GatherDefinitionName(NoteStartToken(t), "START_MEMO")

RECURSIVE TransitionFromSTART_DEFINITION(_)
\* Tokenizer.transitionFromSTART_DEFINITION
TransitionFromSTART_DEFINITION(t) ==
    IF AtEnd(t) THEN TokenizerError(t, "Got EOS in START_DEFINITION")
    ELSE IF IsWhitespace(Ch(t)) THEN TransitionFromSTART_DEFINITION(AdvancePosition(t, 1))
    ELSE IF IsQuote(Ch(t))
    THEN TokenizerError(AdvancePosition(t, 1), "Definition names can't have quotes in them")
    ELSE TransitionFromGATHER_DEFINITION_NAME(AdvancePosition(AdvancePosition(t, 1), -1))

RECURSIVE TransitionFromSTART_MEMO(_)
\* Tokenizer.transitionFromSTART_MEMO
TransitionFromSTART_MEMO(t) ==
    IF AtEnd(t) THEN TokenizerError(t, "Got EOS in START_MEMO")
    ELSE IF IsWhitespace(Ch(t)) THEN TransitionFromSTART_MEMO(AdvancePosition(t, 1))
    ELSE IF IsQuote(Ch(t))
    THEN TokenizerError(AdvancePosition(t, 1), "Memo names can't have quotes in them")
    ELSE TransitionFromGATHER_MEMO_NAME(AdvancePosition(AdvancePosition(t, 1), -1))

RECURSIVE GatherModule(_)
\* the loop of Tokenizer.transitionFromGATHER_MODULE
GatherModule(t) ==
    IF AtEnd(t) THEN ReturnToken(t, "START_MODULE")
    ELSE IF IsWhitespace(Ch(t)) THEN ReturnToken(AdvancePosition(t, 1), "START_MODULE")
    ELSE IF Ch(t) = "}"
    THEN ReturnToken(AdvancePosition(AdvancePosition(t, 1), -1), "START_MODULE")
    ELSE GatherModule(WriteRune(AdvancePosition(t, 1), Ch(t)))

\* Tokenizer.transitionFromGATHER_MODULE
TransitionFromGATHER_MODULE(t) == GatherModule(NoteStartToken(t))

RECURSIVE GatherTripleQuoteStringFirst(_, _)
\* a scan that closes the string at the first three delimiters
GatherTripleQuoteStringFirst(t, delim) ==
    IF AtEnd(t) THEN TokenizerError(t, "Unterminated string")
    ELSE IF Ch(t) = delim /\ IsTripleQuote(t, t.inputPos, Ch(t))
    THEN ReturnToken(AdvancePosition(t, 3), "STRING")
    ELSE GatherTripleQuoteStringFirst(WriteRune(AdvancePosition(t, 1), Ch(t)), delim)

RECURSIVE GatherTripleQuoteStringDropping(_, _)
\* a scan that passes the delimiter a fourth one follows without keeping it
GatherTripleQuoteStringDropping(t, delim) ==
    IF AtEnd(t) THEN TokenizerError(t, "Unterminated string")
    ELSE IF Ch(t) = delim /\ IsTripleQuote(t, t.inputPos, Ch(t))
    THEN IF t.inputPos + 3 < InputLen(t) /\ CharAt(t, t.inputPos + 3) = delim
         THEN GatherTripleQuoteStringDropping(AdvancePosition(t, 1), delim)
         ELSE ReturnToken(AdvancePosition(t, 3), "STRING")
    ELSE GatherTripleQuoteStringDropping(WriteRune(AdvancePosition(t, 1), Ch(t)), delim)

RECURSIVE GatherTripleQuoteString(_, _)
\* the loop of Tokenizer.transitionFromGATHER_TRIPLE_QUOTE_STRING: three
\* delimiters close the string unless a fourth follows them
GatherTripleQuoteString(t, delim) ==
    IF AtEnd(t) THEN TokenizerError(t, "Unterminated string")
    ELSE IF Ch(t) = delim /\ IsTripleQuote(t, t.inputPos, Ch(t))
    THEN IF t.inputPos + 3 < InputLen(t) /\ CharAt(t, t.inputPos + 3) = delim
         THEN GatherTripleQuoteString(WriteRune(AdvancePosition(t, 1), delim), delim)
         ELSE ReturnToken(AdvancePosition(t, 3), "STRING")
    ELSE GatherTripleQuoteString(WriteRune(AdvancePosition(t, 1), Ch(t)), delim)

\* Tokenizer.transitionFromGATHER_TRIPLE_QUOTE_STRING
TransitionFromGATHER_TRIPLE_QUOTE_STRING(t, delim) ==
    GatherTripleQuoteString(NoteStartToken(t), delim)

RECURSIVE GatherString(_, _)
\* the loop of Tokenizer.transitionFromGATHER_STRING
GatherString(t, delim) ==
    IF AtEnd(t) THEN TokenizerError(t, "Unterminated string")
    ELSE IF Ch(t) = delim THEN ReturnToken(AdvancePosition(t, 1), "STRING")
    ELSE GatherString(WriteRune(AdvancePosition(t, 1), Ch(t)), delim)

\* Tokenizer.transitionFromGATHER_STRING
TransitionFromGATHER_STRING(t, delim) == GatherString(NoteStartToken(t), delim)

RECURSIVE GatherTimezone(_)
\* the inner loop of Tokenizer.transitionFromGATHER_WORD: everything up to
\* the next ] or the end of the input
GatherTimezone(t) ==
    IF AtEnd(t) THEN t
    ELSE IF Ch(t) = "]" THEN WriteRune(AdvancePosition(t, 1), Ch(t))
    ELSE GatherTimezone(WriteRune(AdvancePosition(t, 1), Ch(t)))

RECURSIVE GatherWordPlain(_)
\* a scan for which [ always ends the word
GatherWordPlain(t) ==
    IF AtEnd(t) THEN ReturnToken(t, "WORD")
    ELSE IF IsWhitespace(Ch(t)) THEN ReturnToken(AdvancePosition(t, 1), "WORD")
    ELSE IF Ch(t) \in {";", "{", "}", "#", "[", "]"}
    THEN ReturnToken(AdvancePosition(AdvancePosition(t, 1), -1), "WORD")
    ELSE GatherWordPlain(WriteRune(AdvancePosition(t, 1), Ch(t)))

RECURSIVE GatherWord(_)
\* the loop of Tokenizer.transitionFromGATHER_WORD
GatherWord(t) ==
    IF AtEnd(t) THEN ReturnToken(t, "WORD")
    ELSE IF IsWhitespace(Ch(t)) THEN ReturnToken(AdvancePosition(t, 1), "WORD")
    ELSE IF Ch(t) \in {";", "{", "}", "#"}
    THEN ReturnToken(AdvancePosition(AdvancePosition(t, 1), -1), "WORD")
    ELSE IF Ch(t) = "["
    THEN IF \E i \in DOMAIN t.tokenString : t.tokenString[i] = "T"
         THEN ReturnToken(GatherTimezone(WriteRune(AdvancePosition(t, 1), Ch(t))), "WORD")
         ELSE ReturnToken(AdvancePosition(AdvancePosition(t, 1), -1), "WORD")
    ELSE IF Ch(t) = "]"
    THEN ReturnToken(AdvancePosition(AdvancePosition(t, 1), -1), "WORD")
    ELSE GatherWord(WriteRune(AdvancePosition(t, 1), Ch(t)))

\* Tokenizer.transitionFromGATHER_WORD
TransitionFromGATHER_WORD(t) == GatherWord(NoteStartToken(t))

\* the end of Tokenizer.transitionFromGATHER_DOT_SYMBOL: a dot alone is a
\* word, otherwise the lexeme is what follows the dot
FinishDotSymbol(t) ==
    IF Len(t.tokenString) < 2 THEN ReturnToken(t, "WORD")
    ELSE Returned(t, "DOT_SYMBOL", Tail(t.tokenString))

RECURSIVE GatherDotSymbol(_)
\* the loop of Tokenizer.transitionFromGATHER_DOT_SYMBOL
GatherDotSymbol(t) ==
    IF AtEnd(t) THEN FinishDotSymbol(t)
    ELSE IF IsWhitespace(Ch(t)) THEN FinishDotSymbol(AdvancePosition(t, 1))
    ELSE IF Ch(t) \in {";", "[", "]", "{", "}", "#"}
    THEN FinishDotSymbol(AdvancePosition(AdvancePosition(t, 1), -1))
    ELSE GatherDotSymbol(WriteRune(AdvancePosition(t, 1), Ch(t)))

\* Tokenizer.transitionFromGATHER_DOT_SYMBOL
TransitionFromGATHER_DOT_SYMBOL(t) == GatherDotSymbol(NoteStartToken(t))

RECURSIVE TransitionFromSTART(_)

\* the body of the loop of Tokenizer.transitionFromSTART: ch is the character
\* read and t the tokenizer after the start was noted and ch was passed
TransitionOn(ch, t) ==
    IF IsWhitespace(ch) THEN TransitionFromSTART(t)
    ELSE IF ch = "#" THEN TransitionFromCOMMENT(t)
    ELSE IF ch = ":" THEN TransitionFromSTART_DEFINITION(t)
    ELSE IF IsStartMemo(t, t.inputPos - 1)
    THEN TransitionFromSTART_MEMO(AdvancePosition(t, 1))
    ELSE IF ch = ";" THEN ReturnToken(WriteRune(t, ch), "END_DEF")
    ELSE IF ch = "[" THEN ReturnToken(WriteRune(t, ch), "START_ARRAY")
    ELSE IF ch = "]" THEN ReturnToken(WriteRune(t, ch), "END_ARRAY")
    ELSE IF ch = "{" THEN TransitionFromGATHER_MODULE(t)
    ELSE IF ch = "}" THEN ReturnToken(WriteRune(t, ch), "END_MODULE")
    ELSE IF IsTripleQuote(t, t.inputPos - 1, ch)
    THEN TransitionFromGATHER_TRIPLE_QUOTE_STRING(AdvancePosition(t, 2), ch)
    ELSE IF IsQuote(ch) THEN TransitionFromGATHER_STRING(t, ch)
    ELSE IF ch = "." THEN TransitionFromGATHER_DOT_SYMBOL(AdvancePosition(t, -1))
    ELSE TransitionFromGATHER_WORD(AdvancePosition(t, -1))

\* Tokenizer.transitionFromSTART
TransitionFromSTART(t) ==
    IF AtEnd(t) THEN ReturnToken(t, "EOS")
    ELSE TransitionOn(Ch(t), AdvancePosition(NoteStartToken(t), 1))

\* Tokenizer.NextToken
TokenizerNextToken(t) == TransitionFromSTART([t EXCEPT !.tokenString = <<>>])

\* no tokenizer is in use
NoLexing ==
    /\ tokenizer = NewTokenizer(<<>>)
    /\ returned = <<>>
    /\ tokenizerErr = NoErr

\* no WordOptions was made and no call of the library is recorded
NoOptions == [made |-> FALSE, options |-> EmptyMap]
NoOutcome == [call |-> <<>>, value |-> NoValue, err |-> NoErr]
NoCalling ==
    /\ argument = NoValue
    /\ wordOptions = NoOptions
    /\ outcome = NoOutcome

-----------------------------------------------------------------------------
(* ToTime on the characters of its text (src/unnamed/part_003).  A text is *)
(* a sequence of characters.                                               *)

\* the digits of the model and strconv.Atoi of one and of a sequence of them
Digits == {"0", "1", "2", "3", "5", "6", "9"}
DigitValue(c) ==
    CASE c = "0" -> 0 [] c = "1" -> 1 [] c = "2" -> 2 [] c = "3" -> 3
      [] c = "5" -> 5 [] c = "6" -> 6 [] c = "9" -> 9
RECURSIVE Atoi(_)
Atoi(digits) ==
    IF digits = <<>> THEN 0 ELSE 10 * Atoi(Front(digits)) + DigitValue(Last(digits))

\* the text from position i on
TextFrom(text, i) == SubSeq(text, i, Len(text))

RECURSIVE SkipSpace(_)
\* \s* of the pattern: the text without its leading white space
SkipSpace(text) ==
    IF text # <<>> /\ Head(text) \in {" ", "\t", "\n"} THEN SkipSpace(Tail(text)) ELSE text

\* (?:\s*(AM|PM))?$ on the rest of the text: the meridiem, "" when the
\* group is absent, or no match
NoMatch == [matched |-> FALSE, hours |-> <<>>, minutes |-> <<>>, meridiem |-> ""]
MatchMeridiem(rest) ==
    IF rest = <<>> THEN ""
    ELSE IF SkipSpace(rest) = <<"A", "M">> THEN "AM"
    ELSE IF SkipSpace(rest) = <<"P", "M">> THEN "PM"
    ELSE "none"

\* :(\d{2}) and the rest of the pattern, at the colon position p
MatchFromColon(text, p) ==
    IF /\ Len(text) >= p + 2
       /\ text[p] = ":"
       /\ text[p + 1] \in Digits
       /\ text[p + 2] \in Digits
       /\ MatchMeridiem(TextFrom(text, p + 3)) # "none"
    THEN [matched |-> TRUE, hours |-> SubSeq(text, 1, p - 1),
          minutes |-> SubSeq(text, p + 1, p + 2),
          meridiem |-> MatchMeridiem(TextFrom(text, p + 3))]
    ELSE NoMatch

\* re.FindStringSubmatch with ^(\d{1,2}):(\d{2})(?:\s*(AM|PM))?$
MatchTime(text) ==
    IF Len(text) >= 2 /\ text[1] \in Digits /\ text[2] = ":" THEN MatchFromColon(text, 2)
    ELSE IF Len(text) >= 3 /\ text[1] \in Digits /\ text[2] \in Digits
    THEN MatchFromColon(text, 3)
    ELSE NoMatch

\* the adjustment of the hours for AM and PM
AdjustHours(hours, meridiem) ==
    IF meridiem = "PM" /\ hours < 12 THEN hours + 12
    ELSE IF meridiem = "AM" /\ hours = 12 THEN 0
    ELSE IF meridiem = "AM" /\ hours > 12 THEN hours - 12
    ELSE hours

\* the end of ToTime: the range check is made on the adjusted hours
TimeOfDay(hours, minutes) ==
    IF hours > 23 \/ minutes >= 60 THEN NoValue
    ELSE [t |-> "time", v |-> <<hours, minutes>>]

\* ToTime on the characters of the text
ParseTime(text) ==
    IF ~MatchTime(text).matched THEN NoValue
    ELSE TimeOfDay(AdjustHours(Atoi(MatchTime(text).hours), MatchTime(text).meridiem),
                   Atoi(MatchTime(text).minutes))

-----------------------------------------------------------------------------
(* WordOptions (src/unnamed/part_012): the options map is a function from  *)
(* the keys to the values.                                                 *)

RECURSIVE ParsePairsFirst(_, _, _)
\* a loop that keeps the value of the first occurrence of a key
ParsePairsFirst(options, arr, i) ==
    IF i > Len(arr) THEN [wo |-> [made |-> TRUE, options |-> options], err |-> NoErr]
    ELSE IF arr[i].t # "str"
    THEN [wo |-> NoOptions, err |-> Error("OptionKeyNotString", "")]
    ELSE ParsePairsFirst(IF arr[i].v \in DOMAIN options THEN options
                         ELSE Put(options, arr[i].v, arr[i + 1]),
                         arr, i + 2)

RECURSIVE ParsePairs(_, _, _)
\* the loop of NewWordOptions over the pairs from index i on: a key that is
\* no string ends it with an error and no WordOptions
ParsePairs(options, arr, i) ==
    IF i > Len(arr) THEN [wo |-> [made |-> TRUE, options |-> options], err |-> NoErr]
    ELSE IF arr[i].t # "str"
    THEN [wo |-> NoOptions, err |-> Error("OptionKeyNotString", "")]
    ELSE ParsePairs(Put(options, arr[i].v, arr[i + 1]), arr, i + 2)

\* NewWordOptions: the WordOptions and the error it returns
NewWordOptions(flatArray) ==
    IF flatArray.t # "arr" THEN [wo |-> NoOptions, err |-> Error("OptionsNotArray", "")]
    ELSE IF Len(flatArray.v) % 2 # 0
    THEN [wo |-> NoOptions, err |-> Error("OptionsOddLength", "")]
    ELSE ParsePairs(EmptyMap, flatArray.v, 1)

\* WordOptions.Get; defaultValue is the sequence of the variadic arguments
WordOptionsGet(wo, key, defaultValue) ==
    IF key \in DOMAIN wo.options THEN wo.options[key]
    ELSE IF Len(defaultValue) > 0 THEN defaultValue[1]
    ELSE Null

\* WordOptions.Has
WordOptionsHas(wo, key) == key \in DOMAIN wo.options

-----------------------------------------------------------------------------
(* The state machine                                                       *)

\* NewInterpreter(core): the app module, the standard literal handlers and the
\* core module registered and imported without prefix
NewInterpreter ==
    InterpImportModule(
        [stack |-> <<>>, appModule |-> 1, moduleStack |-> <<1>>,
         registeredMods |-> EmptyMap, tokenizerStack |-> <<>>,
         previousToken |-> NoToken, isCompiling |-> FALSE,
         isMemoDefinition |-> FALSE, curDefinition |-> NoWord,
         literalHandlers |-> StandardLiterals,
         mods |-> <<NewModule(""), CoreModule>>, memos |-> <<>>, err |-> NoErr],
        2, "")

T(type, str) == [type |-> type, string |-> str]

\* every kind of token, with the lexemes of the model
Menu ==
    {T("STRING", "A"), T("COMMENT", "#"), T("START_ARRAY", "["), T("END_ARRAY", "]"),
     T("START_MODULE", ""), T("START_MODULE", "m"), T("END_MODULE", "}"),
     T("START_DEF", "A"), T("START_MEMO", "A"), T("END_DEF", ";"),
     T("DOT_SYMBOL", "A"), T("WORD", "A"), T("WORD", "POP"), T("WORD", "1"),
     T("EOS", "")}

\* the words of a body: a literal, a core word, the words defined before
BodyMenu ==
    {T("WORD", "1"), T("STRING", "A"), T("WORD", "POP"), T("WORD", "A"), T("WORD", "B")}

\* : A|B 1|POP ;  : A body ;
DefScript ==
    <<{T("START_DEF", "A"), T("START_DEF", "B")}, {T("WORD", "1"), T("WORD", "POP")},
      {T("END_DEF", ";")}, {T("START_DEF", "A")}>>
    \o [i \in 1..MaxBody |-> BodyMenu] \o <<{T("END_DEF", ";")}>>

\* a module m that defines a word with the name of a core word
ModMenu ==
    {T("START_MODULE", "m"), T("END_MODULE", "}"), T("START_DEF", "POP"),
     T("WORD", "POP"), T("END_DEF", ";")}

\* { mod : P 1 ; [ "P" ] EXPORT } with the alternative that P is not exported
DefineMod ==
    <<{T("START_MODULE", "mod")}, {T("START_DEF", "P")}, {T("WORD", "1")},
      {T("END_DEF", ";")}, {T("START_ARRAY", "[")}, {T("STRING", "P")},
      {T("END_ARRAY", "]")}, {T("WORD", "EXPORT"), T("WORD", "POP")},
      {T("END_MODULE", "}")}>>

\* [ "mod" ] USE-MODULES
UseBare ==
    <<{T("START_ARRAY", "[")}, {T("STRING", "mod")}, {T("END_ARRAY", "]")},
      {T("WORD", "USE-MODULES")}>>

\* [ [ "mod" "mod" ] ] USE-MODULES
UsePair ==
    <<{T("START_ARRAY", "[")}, {T("START_ARRAY", "[")}, {T("STRING", "mod")},
      {T("STRING", "mod")}, {T("END_ARRAY", "]")}, {T("END_ARRAY", "]")},
      {T("WORD", "USE-MODULES")}>>

\* the use of P after the import, with and without the prefix
UseP == <<{T("WORD", "mod.P"), T("WORD", "P")}, {T("EOS", "")}>>

BareScript == DefineMod \o UseBare \o UseP
PairScript == DefineMod \o UsePair \o UseP

\* the tokens that follow a memo definition: values for the stack, the memo
\* and its two refresh words
MemoMenu ==
    {T("WORD", "1"), T("STRING", "A"), T("WORD", "POP"), T("WORD", "X"),
     T("WORD", "X!"), T("WORD", "X!@")}

\* @: X body ; with a body of one or two words whose result depends on the
\* stack (DUP, USE-MODULES) or not (1), or with a second definition started
\* inside the first
MemoScript ==
    <<{T("START_MEMO", "X")}, {T("WORD", "1"), T("WORD", "DUP"), T("WORD", "USE-MODULES")},
      {T("COMMENT", "#"), T("WORD", "1"), T("START_DEF", "X"), T("START_MEMO", "X")},
      {T("END_DEF", ";")}>>
    \o [i \in 1..MaxMemoUses |-> MemoMenu]

\* : W 1 or @: W # and the end of the input, then an empty input, then ;
EosScript ==
    <<{T("START_DEF", "W"), T("START_MEMO", "W")}, {T("WORD", "1"), T("COMMENT", "#")},
      {T("EOS", "")}, {T("EOS", "")}, {T("END_DEF", ";")}, {T("EOS", "")}>>

\* the inputs of the model
Scripts ==
    {[i \in 1..MaxTokens |-> Menu], DefScript,
     [i \in 1..MaxModTokens |-> ModMenu], BareScript, PairScript, MemoScript,
     EosScript}

Init ==
    /\ script \in Scripts
    /\ ntokens = 0
    /\ running = FALSE
    /\ interp = NewInterpreter
    /\ NoLexing
    /\ NoCalling

\* the host calls Interpreter.Run: a tokenizer for the input is pushed
RunBegin ==
    /\ ~running
    /\ ntokens < Len(script)
    /\ running' = TRUE
    /\ interp' = [interp EXCEPT !.tokenizerStack = Append(@, [pos |-> 0]), !.err = NoErr]
    /\ UNCHANGED <<script, ntokens, lexing, calling>>

\* the tokens the input offers at the position the tokenizer has reached
Offered == IF running /\ ntokens < Len(script) THEN script[ntokens + 1] ELSE {}

\* the step to the result r of RunStep
StepTo(r) ==
    /\ interp' = r.st
    /\ running' = r.running
    /\ ntokens' = ntokens + 1
    /\ UNCHANGED <<script, lexing, calling>>

\* the tokenizer of the Run in progress yields the token tk, which is handled
Feed(tk) ==
    StepTo(RunStep(interp, Token(tk.type, tk.string, Last(interp.tokenizerStack).pos + 1)))

StringToken == \E tk \in Offered : tk.type = "STRING" /\ Feed(tk)
CommentToken == \E tk \in Offered : tk.type = "COMMENT" /\ Feed(tk)
StartArrayToken == \E tk \in Offered : tk.type = "START_ARRAY" /\ Feed(tk)
EndArrayToken == \E tk \in Offered : tk.type = "END_ARRAY" /\ Feed(tk)
StartModuleToken == \E tk \in Offered : tk.type = "START_MODULE" /\ Feed(tk)
EndModuleToken == \E tk \in Offered : tk.type = "END_MODULE" /\ Feed(tk)
StartDefinitionToken == \E tk \in Offered : tk.type = "START_DEF" /\ Feed(tk)
StartMemoToken == \E tk \in Offered : tk.type = "START_MEMO" /\ Feed(tk)
EndDefinitionToken == \E tk \in Offered : tk.type = "END_DEF" /\ Feed(tk)
DotSymbolToken == \E tk \in Offered : tk.type = "DOT_SYMBOL" /\ Feed(tk)
WordToken == \E tk \in Offered : tk.type = "WORD" /\ Feed(tk)
EOSToken == \E tk \in Offered : tk.type = "EOS" /\ Feed(tk)

Next ==
    \/ RunBegin
    \/ StringToken
    \/ CommentToken
    \/ StartArrayToken
    \/ EndArrayToken
    \/ StartModuleToken
    \/ EndModuleToken
    \/ StartDefinitionToken
    \/ StartMemoToken
    \/ EndDefinitionToken
    \/ DotSymbolToken
    \/ WordToken
    \/ EOSToken

Spec == Init /\ [][Next]_vars

-----------------------------------------------------------------------------
(* Array literals: the input is one array literal of string and integer    *)
(* literals and nested array literals, run by a new interpreter.  A literal *)
(* is written as the value it denotes.                                      *)

LiteralElements == {StrV("A"), IntV(1)}
FlatArrays ==
    {ArrV(items) : items \in UNION {[1..n -> LiteralElements] : n \in 0..MaxArrayLen}}
ArrayLiterals ==
    {ArrV(items) :
        items \in UNION {[1..n -> LiteralElements \cup FlatArrays] : n \in 0..MaxArrayLen}}

RECURSIVE LiteralTokens(_)
RECURSIVE ElementTokens(_, _)
\* the tokens of the elements of an array literal from element i on
ElementTokens(items, i) ==
    IF i > Len(items) THEN <<>>
    ELSE LiteralTokens(items[i]) \o ElementTokens(items, i + 1)

\* the tokens the tokenizer makes of a literal
LiteralTokens(v) ==
    CASE v.t = "str" -> <<T("STRING", v.v)>>
      [] v.t = "int" -> <<T("WORD", IntLexemes[v.v + 1])>>
      [] v.t = "arr" ->
             <<T("START_ARRAY", "[")>> \o ElementTokens(v.v, 1) \o <<T("END_ARRAY", "]")>>
      [] OTHER -> <<T("WORD", v.t)>>

\* the input that consists of the literal
ScriptOf(v) == [i \in DOMAIN LiteralTokens(v) |-> {LiteralTokens(v)[i]}]

ArrayInit ==
    /\ script \in {ScriptOf(a) : a \in ArrayLiterals}
    /\ ntokens = 0
    /\ running = FALSE
    /\ interp = NewInterpreter
    /\ NoLexing
    /\ NoCalling

ArrayNext ==
    \/ RunBegin
    \/ StringToken
    \/ WordToken
    \/ StartArrayToken
    \/ EndArrayToken

SpecArray == ArrayInit /\ [][ArrayNext]_vars

-----------------------------------------------------------------------------
(* The Module API used by a host program: a library module is built with  *)
(* AddWord, AddExportableWord, AddExportable, AddVariable and AddMemoWords *)
(* and is imported into the app module, which the host leaves alone        *)
(* otherwise.  ntokens counts the calls.                                   *)

\* the library module: NewModule("mod"), next to the modules of NewInterpreter
LibModule == Len(NewInterpreter.mods) + 1

ApiNames == {"A", "B"}
ApiPrefixes == {"", "p"}

ApiInit ==
    /\ script = <<>>
    /\ ntokens = 0
    /\ running = FALSE
    /\ interp = [NewInterpreter EXCEPT !.mods = Append(@, NewModule("mod"))]
    /\ NoLexing
    /\ NoCalling

\* the call is made and leaves the interpreter st
ApiCall(st) ==
    /\ interp' = st
    /\ ntokens' = ntokens + 1
    /\ UNCHANGED <<running, script, lexing, calling>>

\* a new word: no two words the host makes are the same object
NewWord(name) == PushValueWord(name, IntV(ntokens))

ApiAddWord ==
    \E name \in ApiNames :
        /\ ntokens < MaxApiCalls
        /\ ApiCall([interp EXCEPT !.mods[LibModule] = AddWord(@, NewWord(name))])

ApiAddExportableWord ==
    \E name \in ApiNames :
        /\ ntokens < MaxApiCalls
        /\ ApiCall([interp EXCEPT
                       !.mods[LibModule] = AddExportableWord(@, NewWord(name))])

ApiAddExportable ==
    \E name \in ApiNames :
        /\ ntokens < MaxApiCalls
        /\ ApiCall([interp EXCEPT !.mods[LibModule] = AddExportable(@, <<name>>)])

ApiAddVariable ==
    \E name \in ApiNames :
        /\ ntokens < MaxApiCalls
        /\ ApiCall([interp EXCEPT !.mods[LibModule] = AddVariable(@, name, Null)])

ApiAddMemoWords ==
    \E name \in ApiNames :
        /\ ntokens < MaxApiCalls
        /\ ApiCall(AddMemoWords(interp, LibModule,
                                 DefinitionWord(name, <<NewWord("<string>")>>)))

ApiImportModule ==
    \E prefix \in ApiPrefixes :
        /\ ntokens < MaxApiCalls
        /\ ApiCall([interp EXCEPT
                       !.mods = ImportModule(@, interp.appModule, prefix, LibModule)])

ApiNext ==
    \/ ApiAddWord
    \/ ApiAddExportableWord
    \/ ApiAddExportable
    \/ ApiAddVariable
    \/ ApiAddMemoWords
    \/ ApiImportModule

SpecModule == ApiInit /\ [][ApiNext]_vars

-----------------------------------------------------------------------------
(* Words with error handlers.  A host program makes a Native word W whose   *)
(* function fails, stops intentionally or succeeds, gives it error         *)
(* handlers, wraps it in Definitions named W that get handlers in turn,    *)
(* and runs `W "A"`.  Every word is added to the app module; handlers are  *)
(* added to the newest word only.  ntokens counts the calls.               *)

HostFunctions == {"fail", "stop", "mark"}
HandlerAnswers == {"handled", "declined"}

\* the words of the app module that the host has made
HostWords(st) ==
    SubSeq(st.mods[st.appModule].words,
           Len(NewInterpreter.mods[NewInterpreter.appModule].words) + 1,
           Len(st.mods[st.appModule].words))

\* the newest word of the host
TopWord(st) == Last(st.mods[st.appModule].words)

\* BaseWord.AddErrorHandler on the newest word
AddErrorHandler(st, h) ==
    [st EXCEPT !.mods[st.appModule].words[Len(st.mods[st.appModule].words)].errorHandlers
                   = Append(@, h)]

HostInit ==
    /\ script = <<>>
    /\ ntokens = 0
    /\ running = FALSE
    /\ interp = NewInterpreter
    /\ NoLexing
    /\ NoCalling

\* NewModuleWord("W", f) and AddWord
HostNewModuleWord ==
    \E f \in HostFunctions :
        /\ ntokens < MaxHostCalls
        /\ ApiCall([interp EXCEPT !.mods[interp.appModule] = AddWord(@, ModuleWord("W", f))])

\* NewDefinitionWord("W", {W, "1"}) and AddWord: the newest word, then a push
HostNewDefinitionWord ==
    /\ ntokens < MaxHostCalls
    /\ HostWords(interp) # <<>>
    /\ ApiCall([interp EXCEPT
                   !.mods[interp.appModule] =
                       AddWord(@, DefinitionWord("W", <<TopWord(interp),
                                                       PushValueWord("1", IntV(1))>>))])

\* NewDefinitionWord("W", {W, "1", W}) and AddWord: the newest word twice,
\* with a push between
HostNewDefinitionTwice ==
    /\ ntokens < MaxHostCalls
    /\ HostWords(interp) # <<>>
    /\ ApiCall([interp EXCEPT
                   !.mods[interp.appModule] =
                       AddWord(@, DefinitionWord("W", <<TopWord(interp),
                                                       PushValueWord("1", IntV(1)),
                                                       TopWord(interp)>>))])

HostAddErrorHandler ==
    \E answer \in HandlerAnswers :
        /\ ntokens < MaxHostCalls
        /\ HostWords(interp) # <<>>
        /\ ApiCall(AddErrorHandler(interp, Handler(answer, ntokens)))

\* Run(`W "A"`)
HostRun ==
    /\ ntokens < MaxHostCalls
    /\ HostWords(interp) # <<>>
    /\ ApiCall(Run(interp, <<T("WORD", "W"), T("STRING", "A"), T("EOS", "")>>))

HostNext ==
    \/ HostNewModuleWord
    \/ HostNewDefinitionWord
    \/ HostAddErrorHandler
    \/ HostRun

SpecHandlers == HostInit /\ [][HostNext]_vars

\* a host whose Definitions have the newest word twice in the body
BodyNext ==
    \/ HostNewModuleWord
    \/ HostNewDefinitionTwice
    \/ HostAddErrorHandler
    \/ HostRun

SpecBody == HostInit /\ [][BodyNext]_vars

-----------------------------------------------------------------------------
(* The literal handlers: the host registers handlers and runs one lexeme   *)
(* at a time.                                                              *)

\* the lexemes run: those of every built-in handler, of the handlers of the
\* host, and two that no handler accepts
LiteralLexemes ==
    {"TRUE", "FALSE", "1.5", "2025-05-24T10:15:00Z", "2020-06-05", "9:00", "1", "YES",
     "25:00", "x"}

LiteralInit ==
    /\ script = <<>>
    /\ ntokens = 0
    /\ running = FALSE
    /\ interp = NewInterpreter
    /\ NoLexing
    /\ NoCalling

LiteralRegister ==
    \E h \in CustomHandlers :
        /\ ntokens < MaxLiteralCalls
        /\ ApiCall(RegisterLiteralHandler(interp, h))

LiteralRun ==
    \E name \in LiteralLexemes :
        /\ ntokens < MaxLiteralCalls
        /\ ApiCall(Run(interp, <<T("WORD", name), T("EOS", "")>>))

LiteralNext ==
    \/ LiteralRegister
    \/ LiteralRun

SpecLiterals == LiteralInit /\ [][LiteralNext]_vars

-----------------------------------------------------------------------------
(* The tokenizer on its own: a caller makes a Tokenizer for an input and   *)
(* calls NextToken until it returns EOS or an error.                       *)

RECURSIVE SeqsOver(_, _)
\* the sequences over the alphabet of length n or less
SeqsOver(alphabet, n) ==
    IF n = 0 THEN {<<>>}
    ELSE SeqsOver(alphabet, n - 1)
             \cup {Append(s, c) : s \in {x \in SeqsOver(alphabet, n - 1) : Len(x) = n - 1},
                                  c \in alphabet}

\* characters of every class the tokenizer tells apart
Alphabet ==
    {" ", "\n", "#", ":", "@", ";", "[", "]", "{", "}", "\"", ".", "a", "T"}

\* a caller with the input: the tokenizer is new
TokenizerOn(inputString) ==
    /\ tokenizer = NewTokenizer(inputString)
    /\ returned = <<>>
    /\ tokenizerErr = NoErr
    /\ interp = NewInterpreter
    /\ running = FALSE
    /\ script = <<>>
    /\ ntokens = 0
    /\ NoCalling

TokenizerInit == \E inputString \in SeqsOver(Alphabet, MaxInput) : TokenizerOn(inputString)

\* the caller takes what NextToken returned
Take(r) ==
    /\ tokenizer' = r.t
    /\ returned' = IF r.err = NoErr THEN Append(returned, r.token) ELSE returned
    /\ tokenizerErr' = r.err
    /\ UNCHANGED <<interp, running, script, ntokens, calling>>

\* the caller was given the EOS token
AtEOSToken == returned # <<>> /\ Last(returned).type = "EOS"

\* the caller calls NextToken, unless it was given EOS or an error
CallNextToken ==
    /\ tokenizerErr = NoErr
    /\ ~AtEOSToken
    /\ Take(TokenizerNextToken(tokenizer))

TokenizerNext == CallNextToken

SpecTokenizer == TokenizerInit /\ [][TokenizerNext]_vars

\* the characters of the texts with a quoted string: letters, a quote, the
\* two-byte character U+00E9 and the characters of &lt;
StringAlphabet == {"a", "'", "U+00E9", "&", "l", "t", ";"}

MaxStringBody == 4

\* the UTF-8 bytes of a character and of a text
Utf8(char) == IF char = "U+00E9" THEN <<"C3", "A9">> ELSE <<char>>
RECURSIVE Utf8Text(_)
Utf8Text(text) == IF text = <<>> THEN <<>> ELSE Utf8(Head(text)) \o Utf8Text(Tail(text))

\* a delimiter, a body and then nothing, the delimiter, or the delimiter and
\* a letter
StringTextsOf(q) ==
    {<<q>> \o body \o end :
        body \in SeqsOver(StringAlphabet, MaxStringBody), end \in {<<>>, <<q>>, <<q, "a">>}}

\* a caller with a source text: the tokenizer is given its UTF-8 bytes
StringInit ==
    /\ \E q \in QuoteChars : argument \in StringTextsOf(q)
    /\ tokenizer = NewTokenizer(Utf8Text(argument))
    /\ returned = <<>>
    /\ tokenizerErr = NoErr
    /\ wordOptions = NoOptions
    /\ outcome = NoOutcome
    /\ interp = NewInterpreter
    /\ running = FALSE
    /\ script = <<>>
    /\ ntokens = 0

SpecString == StringInit /\ [][TokenizerNext]_vars

\* the inputs that open a triple-quoted string: three delimiters, then
\* delimiters, quotes of another kind and letters
QuoteAlphabet == {"\"", "'", "a"}

TripleQuoteInit ==
    \E q \in {"\"", "'"} :
        \E body \in SeqsOver(QuoteAlphabet, MaxQuoted) : TokenizerOn(<<q, q, q>> \o body)

SpecTripleQuote == TripleQuoteInit /\ [][TokenizerNext]_vars

\* the inputs that gather a word: letters with and without T, brackets and
\* a blank, and the datetime with a named timezone
WordAlphabet == {"T", "a", "[", "]", " "}

ZonedDateTimeInput ==
    <<"2", "0", "2", "5", "-", "0", "5", "-", "2", "0", "T", "0", "8", ":", "0", "0",
      ":", "0", "0", "[", "A", "m", "e", "r", "i", "c", "a", "/", "L", "o", "s", "_",
      "A", "n", "g", "e", "l", "e", "s", "]">>

WordInit ==
    \E inputString \in SeqsOver(WordAlphabet, MaxWordInput) \cup {ZonedDateTimeInput} :
        TokenizerOn(inputString)

SpecWord == WordInit /\ [][TokenizerNext]_vars

-----------------------------------------------------------------------------
(* The variable words: inputs of names, arrays of names and the words      *)
(* VARIABLES, !, @ and !@, in the app module and in a module m.            *)

VariableMenu ==
    {T("STRING", "x"), T("STRING", "__x"), T("START_ARRAY", "["), T("END_ARRAY", "]"),
     T("WORD", "VARIABLES"), T("WORD", "!"), T("WORD", "@"), T("WORD", "!@"),
     T("WORD", "x"), T("START_MODULE", "m")}

VariableInit ==
    /\ script = [i \in 1..MaxVariableTokens |-> VariableMenu]
    /\ ntokens = 0
    /\ running = FALSE
    /\ interp = NewInterpreter
    /\ NoLexing
    /\ NoCalling

VariableNext ==
    \/ RunBegin
    \/ StringToken
    \/ WordToken
    \/ StartArrayToken
    \/ EndArrayToken
    \/ StartModuleToken

SpecVariables == VariableInit /\ [][VariableNext]_vars

-----------------------------------------------------------------------------
(* A caller of WordOptions: it makes one from a flat array and asks it for *)
(* keys, with and without a default.                                       *)

MaxOptions == 4

\* keys, values and other elements of the flat arrays
OptionKeys == {"depth", "key"}
OptionItems == {StrV("depth"), StrV("key"), Null, IntV(2)}
\* the default values handed to Get: none, or one that is no value of an array
OptionDefaults == {<<>>, <<StrV("default")>>}

OptionsInit ==
    /\ argument \in {ArrV(items) : items \in SeqsOver(OptionItems, MaxOptions)}
                        \cup {StrV("depth")}
    /\ wordOptions = NoOptions
    /\ outcome = NoOutcome
    /\ interp = NewInterpreter
    /\ running = FALSE
    /\ script = <<>>
    /\ ntokens = 0
    /\ NoLexing

\* the caller makes the WordOptions from the flat array
CallNewWordOptions ==
    /\ outcome = NoOutcome
    /\ wordOptions' = NewWordOptions(argument).wo
    /\ outcome' = [call |-> <<"NewWordOptions">>, value |-> NoValue,
                   err |-> NewWordOptions(argument).err]
    /\ UNCHANGED <<interp, running, script, ntokens, lexing, argument>>

\* the caller asks for the value of a key
CallGet ==
    /\ wordOptions.made
    /\ \E key \in OptionKeys, defaultValue \in OptionDefaults :
           outcome' = [call |-> <<"Get", key, defaultValue>>,
                       value |-> WordOptionsGet(wordOptions, key, defaultValue),
                       err |-> NoErr]
    /\ UNCHANGED <<interp, running, script, ntokens, lexing, argument, wordOptions>>

\* the caller asks whether a key is there
CallHas ==
    /\ wordOptions.made
    /\ \E key \in OptionKeys :
           outcome' = [call |-> <<"Has", key>>,
                       value |-> BoolV(WordOptionsHas(wordOptions, key)),
                       err |-> NoErr]
    /\ UNCHANGED <<interp, running, script, ntokens, lexing, argument, wordOptions>>

OptionsNext ==
    \/ CallNewWordOptions
    \/ CallGet
    \/ CallHas

SpecOptions == OptionsInit /\ [][OptionsNext]_vars

-----------------------------------------------------------------------------
(* A caller of ToTime: it hands a text to the function once.               *)

MaxHourDigits == 2

\* what follows the minutes in the texts
TimeSuffixes ==
    {<<>>, <<" ", "A", "M">>, <<" ", "P", "M">>, <<"A", "M">>, <<" ", " ", "P", "M">>,
     <<" ">>, <<" ", "A">>}

\* hours of up to MaxHourDigits digits, a colon or none, minutes of up to
\* three digits and the suffix s
TimeTexts(s) ==
    {h \o c \o mi \o s :
        h \in SeqsOver(Digits, MaxHourDigits), c \in {<<":">>, <<>>},
        mi \in {<<a, b>> : a \in Digits, b \in Digits} \cup {<<"0">>, <<"0", "0", "0">>}}

TimeInit ==
    /\ \E s \in TimeSuffixes : argument \in TimeTexts(s)
    /\ wordOptions = NoOptions
    /\ outcome = NoOutcome
    /\ interp = NewInterpreter
    /\ running = FALSE
    /\ script = <<>>
    /\ ntokens = 0
    /\ NoLexing

\* the caller calls ToTime with the text
CallToTime ==
    /\ outcome = NoOutcome
    /\ outcome' = [call |-> <<"ToTime">>, value |-> ParseTime(argument), err |-> NoErr]
    /\ UNCHANGED <<interp, running, script, ntokens, lexing, argument, wordOptions>>

TimeNext == CallToTime

SpecTime == TimeInit /\ [][TimeNext]_vars

-----------------------------------------------------------------------------
(* Redefinition: A is defined, B is defined with A in its body, a word is  *)
(* defined once more, and the words are used.                              *)

MaxUses == 2

\* : A 1|POP|"A" ;  : B A|1 A|POP ;  : A|B body ; or @: A body ;  uses
RedefineScript ==
    <<{T("START_DEF", "A")}, {T("WORD", "1"), T("WORD", "POP"), T("STRING", "A")},
      {T("END_DEF", ";")},
      {T("START_DEF", "B")}, {T("WORD", "A"), T("WORD", "1")},
      {T("WORD", "A"), T("WORD", "POP")}, {T("END_DEF", ";")},
      {T("START_DEF", "A"), T("START_DEF", "B"), T("START_MEMO", "A")},
      {T("WORD", "1"), T("STRING", "A"), T("WORD", "A"), T("WORD", "B"), T("WORD", "POP")},
      {T("END_DEF", ";")}>>
    \o [i \in 1..MaxUses |-> {T("WORD", "A"), T("WORD", "B"), T("WORD", "1")}]

RedefineInit ==
    /\ script = RedefineScript
    /\ ntokens = 0
    /\ running = FALSE
    /\ interp = NewInterpreter
    /\ NoLexing
    /\ NoCalling

RedefineNext ==
    \/ RunBegin
    \/ StringToken
    \/ WordToken
    \/ StartDefinitionToken
    \/ StartMemoToken
    \/ EndDefinitionToken

SpecRedefine == RedefineInit /\ [][RedefineNext]_vars

-----------------------------------------------------------------------------
(* Properties                                                              *)

MaxOf(S) == CHOOSE x \in S : \A y \in S : y <= x
MinOf(S) == CHOOSE x \in S : \A y \in S : x <= y

\* the operand stacks a word is tried on
TryValues == {IntV(1), StrV("A")}
TryStacks == UNION {[1..n -> TryValues] : n \in 0..MaxTryStack}

\* the token a body word was compiled from
TokenOf(word) ==
    IF word.kind = "push" /\ word.name = "<string>" THEN T("STRING", word.value.v)
    ELSE IF word.kind = "push" /\ word.name = "<dot-symbol>"
    THEN T("DOT_SYMBOL", word.value.v)
    ELSE T("WORD", word.name)

\* the tokens of a definition's body, in source order
BodyTokens(def) == [i \in DOMAIN def.words |-> TokenOf(def.words[i])]

\* a literal push or a word of a dictionary
IsBodyWord(w) ==
    \/ w.kind = "push" /\ w.value.t # "token"
    \/ w.kind \in {"def", "native", "exec", "memo", "memobang", "memobangat"}

\* `: NAME body ;` has been run: the definition is installed, NAME denotes it
\* and its body is made of literal pushes and dictionary words
Defined ==
    /\ ~interp.isCompiling
    /\ interp.curDefinition # NoWord
    /\ ~interp.isMemoDefinition
    /\ FindWord(interp, interp.curDefinition.name) = interp.curDefinition
    /\ \A i \in DOMAIN interp.curDefinition.words : IsBodyWord(interp.curDefinition.words[i])

\* the interpreter with the operand stack S and no failure behind it
From(S) == [interp EXCEPT !.stack = S, !.err = NoErr]

\* Run of the tokens from the operand stack S: the final stack and the failure
Outcome(r) == <<r.stack, r.err.class, r.err.kind, r.err.arg>>
RunOn(S, tokens) == Outcome(Run(From(S), Append(tokens, T("EOS", ""))))

RECURSIVE ResolvesAsCompiled(_, _, _)
\* executed directly from st, each body token from position i on resolves to
\* the word that was compiled for it
ResolvesAsCompiled(st, words, i) ==
    IF i > Len(words) \/ Failed(st) THEN TRUE
    ELSE /\ TokenOf(words[i]).type = "WORD" => FindWord(st, words[i].name) = words[i]
         /\ ResolvesAsCompiled(Execute(words[i], st), words, i + 1)

\* C1 as stated: after `: NAME body ;`, with body made of literal pushes and
\* already-defined words, executing NAME from any operand stack S gives the
\* same final stack and the same failure as executing the tokens of body from S
ExpansionEquivalence ==
    Defined =>
        \A S \in TryStacks :
            RunOn(S, <<T("WORD", interp.curDefinition.name)>>)
                = RunOn(S, BodyTokens(interp.curDefinition))

\* C1 amended: the equivalence holds for the stacks S from which each body
\* token, executed directly, still resolves to the word compiled into NAME (a
\* body that mentions NAME itself resolves to the older NAME in the
\* definition and to the new one when run directly)
ExpansionEquivalenceEarlyBound ==
    Defined =>
        \A S \in TryStacks :
            ResolvesAsCompiled(From(S), interp.curDefinition.words, 1)
                => RunOn(S, <<T("WORD", interp.curDefinition.name)>>)
                       = RunOn(S, BodyTokens(interp.curDefinition))

\* a definition of two or more words, one of them a definition, one a core
\* word, which runs to a non-empty stack from the empty one
ExpansionWitness ==
    /\ Defined
    /\ Len(interp.curDefinition.words) >= 2
    /\ \E i \in DOMAIN interp.curDefinition.words : interp.curDefinition.words[i].kind = "def"
    /\ \E i \in DOMAIN interp.curDefinition.words : interp.curDefinition.words[i].kind = "native"
    /\ ResolvesAsCompiled(From(<<>>), interp.curDefinition.words, 1)
    /\ RunOn(<<>>, <<T("WORD", interp.curDefinition.name)>>)[1] # <<>>
    /\ RunOn(<<>>, <<T("WORD", interp.curDefinition.name)>>)[2] = "none"

\* C2: in every reachable state the module stack is non-empty and its bottom
\* element is the app module
ModuleStackBottomIsApp ==
    /\ interp.moduleStack # <<>>
    /\ interp.moduleStack[1] = interp.appModule

\* END_MODULE has failed with only the app module left on the module stack
PopAppModuleWitness ==
    /\ interp.err.kind = "CannotPopAppModule"
    /\ interp.moduleStack = <<interp.appModule>>

\* the definition is in a dictionary, as a word or as the word of a memo
Installed(def) ==
    \/ \E mi \in DOMAIN interp.mods :
           \E i \in DOMAIN interp.mods[mi].words : interp.mods[mi].words[i] = def
    \/ \E c \in DOMAIN interp.memos : interp.memos[c].word = def

Handled(types) ==
    /\ ntokens' = ntokens + 1
    /\ running'
    /\ interp'.previousToken.type \in types

\* the word a token is routed as, resolved before the step
RoutedWord(token) ==
    CASE token.type = "STRING" -> PushValueWord("<string>", StrV(token.string))
      [] token.type = "DOT_SYMBOL" -> PushValueWord("<dot-symbol>", StrV(token.string))
      [] token.type = "START_ARRAY" -> PushValueWord("<start_array_token>", TokenVal(token))
      [] token.type = "END_ARRAY" -> EndArrayWord
      [] token.type = "WORD" -> FindWord(interp, token.string)

\* C4: in compile mode, handling a STRING, DOT_SYMBOL, WORD, START_ARRAY or
\* END_ARRAY token appends exactly one word, the token's word, to the end of
\* the current definition's body and leaves the operand stack unchanged
CompileAppendsOneWord ==
    [][(interp.isCompiling
            /\ Handled({"STRING", "DOT_SYMBOL", "WORD", "START_ARRAY", "END_ARRAY"}))
        => /\ interp'.curDefinition.words
                = Append(interp.curDefinition.words, RoutedWord(interp'.previousToken))
           /\ interp'.curDefinition.name = interp.curDefinition.name
           /\ interp'.stack = interp.stack
           /\ interp'.isCompiling]_vars

\* a body of a string, a dot symbol, a core word and an array bracket, compiled
\* with a value on the operand stack
CompileWitness ==
    /\ interp.isCompiling
    /\ Len(interp.curDefinition.words) >= 2
    /\ \E i \in DOMAIN interp.curDefinition.words :
           /\ i > 1
           /\ interp.curDefinition.words[i].kind \in {"native", "endarray"}
           /\ interp.curDefinition.words[i - 1].kind = "push"

ArrayTokens == {T("START_ARRAY", "["), T("END_ARRAY", "]")}

\* the next token of the Run in progress, were it tk
NextToken(tk) == Token(tk.type, tk.string, TokenizerLocation(interp) + 1)

\* C5 as stated: in compile mode START_ARRAY and END_ARRAY are appended to the
\* current definition and also executed at once: the sentinel is pushed and
\* the array is collected on the operand stack during compilation
ArrayTokensImmediate ==
    interp.isCompiling =>
        \A tk \in ArrayTokens :
            /\ HandleToken(interp, NextToken(tk)).curDefinition.words
                   = Append(interp.curDefinition.words, RoutedWord(NextToken(tk)))
            /\ HandleToken(interp, NextToken(tk)).stack
                   = Execute(RoutedWord(NextToken(tk)), interp).stack

\* C5 amended: in compile mode START_ARRAY and END_ARRAY are not immediate:
\* the sentinel push and the EndArray word are appended to the current
\* definition and nothing is executed, so the operand stack is left as it is
\* and END_ARRAY raises nothing; the array is built when the definition runs
ArrayTokensCompiledOnly ==
    interp.isCompiling =>
        \A tk \in ArrayTokens :
            /\ HandleToken(interp, NextToken(tk))
                   = Compile(interp, RoutedWord(NextToken(tk)))
            /\ HandleToken(interp, NextToken(tk)).stack = interp.stack
            /\ HandleToken(interp, NextToken(tk)).err = interp.err

\* both brackets have been compiled and the operand stack is empty, where an
\* immediate END_ARRAY would have failed
ArrayCompiledWitness ==
    /\ interp.isCompiling
    /\ interp.stack = <<>>
    /\ ~Failed(interp)
    /\ \E i \in DOMAIN interp.curDefinition.words :
           /\ i > 1
           /\ interp.curDefinition.words[i] = EndArrayWord
           /\ interp.curDefinition.words[i - 1].name = "<start_array_token>"

\* C6: a START_MODULE or END_MODULE token is executed at once in either mode:
\* the module stack is pushed with the module named by the token, or popped;
\* in compile mode its word is also appended to the current definition, out
\* of compile mode the current definition is left alone
ModuleTokensImmediate ==
    [][Handled({"START_MODULE", "END_MODULE"})
        => /\ IF interp'.previousToken.type = "START_MODULE"
              THEN /\ Front(interp'.moduleStack) = interp.moduleStack
                   /\ Len(interp'.moduleStack) = Len(interp.moduleStack) + 1
                   /\ interp'.mods[Last(interp'.moduleStack)].name
                          = interp'.previousToken.string
              ELSE interp'.moduleStack = Front(interp.moduleStack)
           /\ interp'.isCompiling = interp.isCompiling
           /\ IF interp.isCompiling
              THEN interp'.curDefinition.words
                       = Append(interp.curDefinition.words,
                                IF interp'.previousToken.type = "START_MODULE"
                                THEN StartModuleWord(interp'.previousToken.string)
                                ELSE EndModuleWord)
              ELSE interp'.curDefinition = interp.curDefinition]_vars

\* in compile mode a module was entered and left again: both words are in the
\* body and the module stack is back to the app module
ModuleTokensWitness ==
    /\ interp.isCompiling
    /\ interp.moduleStack = <<interp.appModule>>
    /\ Len(interp.curDefinition.words) >= 2
    /\ interp.curDefinition.words[1] = StartModuleWord("m")
    /\ interp.curDefinition.words[2] = EndModuleWord
    /\ "m" \in DOMAIN interp.registeredMods

\* the names looked up
LookupNames == {"A", "P", "POP", "1", "mod.P", "x"}

\* the positions of the module stack whose module knows the name
Knowing(name) == {j \in DOMAIN interp.moduleStack : FindAt(interp, j, name) # NoWord}

\* the handlers that accept the name
Accepting(name) ==
    {h \in DOMAIN interp.literalHandlers :
        ApplyHandler(interp.literalHandlers[h], name) # NoValue}

\* the word a name stands for: that of the topmost module that knows the name,
\* else the push of the value of the first handler that accepts it
Resolved(name) ==
    IF Knowing(name) # {} THEN FindAt(interp, MaxOf(Knowing(name)), name)
    ELSE IF Accepting(name) # {}
    THEN PushValueWord(name, ApplyHandler(interp.literalHandlers[MinOf(Accepting(name))],
                                          name))
    ELSE NoWord

\* C7: a WORD token is handled with the word of the topmost module on the
\* module stack that knows the name; the literal handlers are consulted only
\* when no module on the stack knows it, and when no handler accepts it
\* either, the Run fails with UnknownWord(name)
WordTokenResolution ==
    \A name \in LookupNames :
        LET word == Resolved(name)
            step == RunStep(interp, NextToken(T("WORD", name)))
        IN  /\ FindWord(interp, name) = word
            /\ IF word = NoWord
               THEN /\ ~step.running
                    /\ step.st.err.kind = "UnknownWord"
                    /\ step.st.err.arg = name
               ELSE HandleToken(interp, NextToken(T("WORD", name)))
                        = HandleWord(interp, word, TokenizerLocation(interp) + 1)

\* two modules on the stack know POP, each its own word; a literal and an
\* unknown name are at hand too
ResolutionWitness ==
    /\ Len(interp.moduleStack) >= 2
    /\ Cardinality(Knowing("POP")) >= 2
    /\ FindAt(interp, Len(interp.moduleStack), "POP") # FindAt(interp, 1, "POP")
    /\ Knowing("1") = {}
    /\ Resolved("1") = PushValueWord("1", IntV(1))
    /\ Resolved("x") = NoWord

\* the names looked up in a module: the names of the host's calls and of the
\* words they bring about
FindNames == ApiNames \cup {n \o "!" : n \in ApiNames} \cup {"p." \o n : n \in ApiNames}

\* the positions of the words of the module that have the name
Named(m, name) == {i \in DOMAIN m.words : m.words[i].name = name}

\* C8: within one module, find_word returns the most recently added
\* dictionary word with the name, and a PushValue of the variable cell itself
\* only when no dictionary word has the name
FindWordLastWins ==
    \A mi \in DOMAIN interp.mods :
        \A name \in FindNames :
            ModuleFindWord(interp.mods[mi], mi, name)
                = IF Named(interp.mods[mi], name) # {}
                  THEN interp.mods[mi].words[MaxOf(Named(interp.mods[mi], name))]
                  ELSE IF name \in DOMAIN interp.mods[mi].variables
                  THEN PushValueWord(name, VarRef(mi, name))
                  ELSE NoWord

\* the library has two words named A, which differ, and a variable A next to
\* them; B is a variable only
LastWinsWitness ==
    /\ Cardinality(Named(interp.mods[LibModule], "A")) >= 2
    /\ \E i, k \in Named(interp.mods[LibModule], "A") :
           interp.mods[LibModule].words[i] # interp.mods[LibModule].words[k]
    /\ "A" \in DOMAIN interp.mods[LibModule].variables
    /\ "B" \in DOMAIN interp.mods[LibModule].variables
    /\ Named(interp.mods[LibModule], "B") = {}

\* the names in the exportable list of the module
Exportable(m) == {m.exportable[i] : i \in DOMAIN m.exportable}

\* the word is in the dictionary, as it is or as the target of an Execute word
InDictionary(m, word) ==
    \E i \in DOMAIN m.words :
        \/ m.words[i] = word
        \/ m.words[i].kind = "exec" /\ m.words[i].targetWord = word

\* C9: after any sequence of imports, with or without prefix, of the library
\* into the app module, no word of the library whose name is not in its
\* exportable list is in the app module's dictionary, under its own name or
\* behind any prefixed name, so none is found there
ImportExportability ==
    \A i \in DOMAIN interp.mods[LibModule].words :
        interp.mods[LibModule].words[i].name \notin Exportable(interp.mods[LibModule])
            => /\ ~InDictionary(interp.mods[interp.appModule],
                                interp.mods[LibModule].words[i])
               /\ \A name \in FindNames :
                      LET found == FindDictionaryWord(interp.mods[interp.appModule], name)
                      IN  /\ found # interp.mods[LibModule].words[i]
                          /\ found.kind = "exec"
                                 => found.targetWord # interp.mods[LibModule].words[i]

\* the library has a word that is not exportable and one that is, and has
\* been imported without prefix and with prefix p
ExportabilityWitness ==
    /\ \E i \in DOMAIN interp.mods[LibModule].words :
           interp.mods[LibModule].words[i].name \notin Exportable(interp.mods[LibModule])
    /\ \E i \in DOMAIN interp.mods[LibModule].words :
           /\ interp.mods[LibModule].words[i].name \in Exportable(interp.mods[LibModule])
           /\ FindDictionaryWord(interp.mods[interp.appModule],
                                 interp.mods[LibModule].words[i].name)
                  = interp.mods[LibModule].words[i]
           /\ FindDictionaryWord(interp.mods[interp.appModule],
                                 "p." \o interp.mods[LibModule].words[i].name)
                  = ExecuteWord("p." \o interp.mods[LibModule].words[i].name,
                                interp.mods[LibModule].words[i])
    /\ interp.mods[interp.appModule].modulePrefixes["mod"] = {"", "p"}

\* module mod with the exportable word P has been defined and imported with
\* [ "mod" ] USE-MODULES
ImportedBare ==
    /\ script = BareScript
    /\ ntokens = Len(DefineMod) + Len(UseBare)
    /\ running
    /\ ~Failed(interp)
    /\ "mod" \in DOMAIN interp.registeredMods
    /\ Exportable(interp.mods[interp.registeredMods["mod"]]) = {"P"}

\* C10: after { mod : P 1 ; } with P exportable and [ "mod" ] USE-MODULES, the
\* token mod.P resolves and leaves the stack [1]
BareImportPrefixedUse ==
    ImportedBare
        => /\ RunStep(interp, NextToken(T("WORD", "mod.P"))).running
           /\ RunStep(interp, NextToken(T("WORD", "mod.P"))).st.stack = <<IntV(1)>>

\* the memo cells that hold a cached value
Cached == {c \in DOMAIN interp.memos : interp.memos[c].hasValue}

\* the operand stacks a memo is tried on: the values of the inputs and a list
\* that names a module nobody has registered
MemoValues == {IntV(1), StrV("A"), ArrV(<<StrV("zz")>>)}
MemoStacks == UNION {[1..n -> MemoValues] : n \in 0..MaxTryStack}

RECURSIVE Refreshes(_, _)
\* executing the word may refresh the memo cell c: the word is NAME! or NAME!@
\* of the cell, or a word that executes one of them
Refreshes(word, c) ==
    \/ word.kind \in {"memobang", "memobangat"} /\ word.cell = c
    \/ word.kind = "exec" /\ Refreshes(word.targetWord, c)
    \/ word.kind = "def" /\ \E i \in DOMAIN word.words : Refreshes(word.words[i], c)
    \/ word.kind = "memo" /\ Refreshes(interp.memos[word.cell].word, c)

\* C11: once a memo holds a cached value, every execution of NAME from any
\* operand stack is the push of that value and nothing else (the body is not
\* run, no other state changes), and the cached value stays as it is over
\* every step that does not execute NAME! or NAME!@
MemoIdempotence ==
    [][\A c \in Cached :
          /\ \A S \in MemoStacks :
                 Execute(ModuleMemoWord(interp.memos[c].word.name, c), From(S))
                     = StackPush(From(S), interp.memos[c].value)
          /\ interp'.memos[c] # interp.memos[c]
                 => /\ running'
                    /\ interp'.previousToken.type = "WORD"
                    /\ Refreshes(FindWord(interp, interp'.previousToken.string), c)]_vars

\* the memo X with body DUP holds a value and has just been executed on a
\* stack whose top was another value: the cached value was pushed, not the top
MemoIdempotenceWitness ==
    /\ Cached # {}
    /\ \E c \in Cached :
           /\ interp.memos[c].word.words = <<FindWord(NewInterpreter, "DUP")>>
           /\ interp.previousToken.string = "X"
           /\ Len(interp.stack) >= 2
           /\ Last(interp.stack) = interp.memos[c].value
           /\ interp.stack[Len(interp.stack) - 1] # interp.memos[c].value
    /\ running
    /\ ~Failed(interp)

\* the body of the memo cell c run from the stack S, and NAME! run from S
BodyOn(c, S) == Execute(interp.memos[c].word, From(S))
BangOn(c, S) == Execute(ModuleMemoBangWord(interp.memos[c].word.name, c), From(S))

\* C12 as stated: NAME! stores the body's result as the cached value and
\* leaves the operand stack exactly as it was before NAME!
RefreshLeavesStack ==
    \A c \in DOMAIN interp.memos :
        \A S \in MemoStacks :
            ~Failed(BangOn(c, S))
                => /\ BangOn(c, S).stack = S
                   /\ BangOn(c, S).memos[c].hasValue
                   /\ BangOn(c, S).memos[c].value = Last(BodyOn(c, S).stack)

\* C12 amended: NAME! runs the body and pops the value the body left on top
\* of the stack into the cache; it pushes nothing itself, so the stack is what
\* the body left, less its top value.  That is the stack before NAME! exactly
\* when the body's net effect is the push of one value.
RefreshPopsBodyResult ==
    \A c \in DOMAIN interp.memos :
        \A S \in MemoStacks :
            IF Failed(BodyOn(c, S)) \/ BodyOn(c, S).stack = <<>>
            THEN Failed(BangOn(c, S))
            ELSE /\ BangOn(c, S)
                        = [BodyOn(c, S) EXCEPT !.stack = Front(@),
                                               !.memos[c].value = Last(BodyOn(c, S).stack),
                                               !.memos[c].hasValue = TRUE]
                 /\ BangOn(c, S).stack = S
                        <=> BodyOn(c, S).stack = Append(S, Last(BodyOn(c, S).stack))

\* X with body DUP was executed with 1 on top and refreshed by X! with "A" on
\* top: the cached value is "A" now and X! has pushed nothing
RefreshWitness ==
    /\ running
    /\ ~Failed(interp)
    /\ interp.previousToken.string = "X!"
    /\ interp.stack = <<IntV(1), IntV(1), StrV("A")>>
    /\ \E c \in Cached :
           /\ interp.memos[c].word.words = <<FindWord(NewInterpreter, "DUP")>>
           /\ interp.memos[c].value = StrV("A")

\* NAME!@ of the memo cell c run from the stack S
BangAtOn(c, S) == Execute(ModuleMemoBangAtWord(interp.memos[c].word.name, c), From(S))

\* C13: NAME! and NAME!@ invalidate the cache before they run the body again,
\* so a refresh whose body fails leaves the memo without a cached value
RefreshInvalidatesFirst ==
    \A c \in Cached :
        \A S \in MemoStacks :
            /\ Failed(BangOn(c, S)) => ~BangOn(c, S).memos[c].hasValue
            /\ Failed(BangAtOn(c, S)) => ~BangAtOn(c, S).memos[c].hasValue

\* the words of a module that are a memo or one of its refresh words
MemoWords(m) ==
    {m.words[i] : i \in {k \in DOMAIN m.words :
                            m.words[k].kind \in {"memo", "memobang", "memobangat"}}}

\* the memo words the host got by importing, with their prefixed wrappers
\* unwrapped
HostMemoWords ==
    MemoWords(interp.mods[interp.appModule])
        \cup {w.targetWord : w \in {x \in {interp.mods[interp.appModule].words[i] :
                                              i \in DOMAIN interp.mods[interp.appModule].words} :
                                        x.kind = "exec"
                                            /\ x.targetWord.kind
                                                   \in {"memo", "memobang", "memobangat"}}}

\* C14: the memos of the duplicate that an import makes are cells of their
\* own: an execution or refresh of a memo through the importing host leaves
\* has_value and the cached value of every memo of the original module as
\* they were, and an execution in the original leaves the duplicate's alone
DupMemoIndependent ==
    "mod" \in DOMAIN interp.mods[interp.appModule].modules
        => /\ \A w \in HostMemoWords :
                  \A o \in MemoWords(interp.mods[LibModule]) :
                      Execute(w, From(<<>>)).memos[o.cell] = interp.memos[o.cell]
           /\ \A o \in MemoWords(interp.mods[LibModule]) :
                  \A w \in MemoWords(interp.mods[interp.mods[interp.appModule].modules["mod"]]) :
                      Execute(o, From(<<>>)).memos[w.cell] = interp.memos[w.cell]

\* the kinds and names of the words END_DEF adds for the current definition
InstalledKinds ==
    IF interp.isMemoDefinition THEN <<"memo", "memobang", "memobangat">> ELSE <<"def">>
InstalledNames ==
    IF interp.isMemoDefinition
    THEN <<interp.curDefinition.name, interp.curDefinition.name \o "!",
           interp.curDefinition.name \o "!@">>
    ELSE <<interp.curDefinition.name>>

\* C15: END_DEF handled while compiling appends to the dictionary of the
\* module on top of the module stack at that moment exactly one word NAME,
\* the definition, for `:` and exactly the three words NAME, NAME!, NAME!@ of
\* one new memo of the definition for `@:`; no other module changes, and the
\* interpreter is not compiling afterwards
EndDefinitionInstalls ==
    [][(interp.isCompiling /\ Handled({"END_DEF"}))
        => /\ ~interp'.isCompiling
           /\ DOMAIN interp'.mods = DOMAIN interp.mods
           /\ \A mi \in DOMAIN interp.mods :
                  IF mi = CurModule(interp)
                  THEN /\ [interp'.mods[mi] EXCEPT !.words = <<>>]
                              = [interp.mods[mi] EXCEPT !.words = <<>>]
                       /\ Len(interp'.mods[mi].words)
                              = Len(interp.mods[mi].words) + Len(InstalledNames)
                       /\ \A k \in DOMAIN interp.mods[mi].words :
                              interp'.mods[mi].words[k] = interp.mods[mi].words[k]
                       /\ \A k \in DOMAIN InstalledNames :
                              LET w == interp'.mods[mi].words[Len(interp.mods[mi].words) + k]
                              IN  /\ w.name = InstalledNames[k]
                                  /\ w.kind = InstalledKinds[k]
                                  /\ IF interp.isMemoDefinition
                                     THEN /\ w.cell = Len(interp'.memos)
                                          /\ interp'.memos
                                                = Append(interp.memos,
                                                         [word |-> interp.curDefinition,
                                                          hasValue |-> FALSE,
                                                          value |-> Null])
                                     ELSE /\ w = interp.curDefinition
                                          /\ interp'.memos = interp.memos
                  ELSE interp'.mods[mi] = interp.mods[mi]]_vars

\* a memo was installed in module m, which was entered before the definition
\* began: m has the three words, the app module none of them
EndDefinitionInstallsWitness ==
    /\ interp.previousToken.type = "END_DEF"
    /\ ~interp.isCompiling
    /\ interp.isMemoDefinition
    /\ Len(interp.moduleStack) = 2
    /\ interp.mods[CurModule(interp)].name = "m"
    /\ Len(interp.mods[CurModule(interp)].words) = 3
    /\ FindDictionaryWord(interp.mods[CurModule(interp)], "A!@").kind = "memobangat"
    /\ FindDictionaryWord(interp.mods[interp.appModule], "A") = NoWord

\* the end of the input of the Run in progress, were it reached now
AtEOS == RunStep(interp, NextToken(T("EOS", "")))

\* C16: when the end of the input is reached in compile mode, Run returns the
\* missing-terminator error, located at the last token handled before EOS:
\* the previous token, which is the token the tokenizer produced last when the
\* Run has handled a token (for `: W 1` the location of 1)
MissingTerminatorLocation ==
    (running /\ interp.isCompiling)
        => /\ ~AtEOS.running
           /\ AtEOS.st.err.class = "error"
           /\ AtEOS.st.err.kind = "MissingSemicolon"
           /\ AtEOS.st.err.loc = interp.previousToken.location
           /\ AtEOS.st.err.loc # 0
           /\ TokenizerLocation(interp) >= 1 => AtEOS.st.err.loc = TokenizerLocation(interp)
           /\ AtEOS.st.isCompiling
           /\ AtEOS.st.tokenizerStack = Front(interp.tokenizerStack)

\* the input `: W 1` has ended: Run has returned the error located at its
\* second token, the last one before EOS
MissingTerminatorWitness ==
    /\ script = EosScript
    /\ ntokens = 3
    /\ ~running
    /\ interp.err.kind = "MissingSemicolon"
    /\ interp.err.loc = 2
    /\ interp.previousToken.location = 2
    /\ interp.isCompiling

StartTokens == {T("START_DEF", "B"), T("START_MEMO", "B")}

\* C17: in compile mode a START_DEF or START_MEMO token yields the
\* missing-terminator error, which ends the Run, and starts no definition:
\* the current definition with its body, the memo flag and the compile mode
\* are as before, and so is everything else
StartWhileCompilingFails ==
    interp.isCompiling =>
        \A tk \in StartTokens :
            /\ HandleToken(interp, NextToken(tk)).err.class = "error"
            /\ HandleToken(interp, NextToken(tk)).err.kind = "MissingSemicolon"
            /\ HandleToken(interp, NextToken(tk)).curDefinition = interp.curDefinition
            /\ HandleToken(interp, NextToken(tk)).isMemoDefinition = interp.isMemoDefinition
            /\ HandleToken(interp, NextToken(tk)).isCompiling
            /\ HandleToken(interp, NextToken(tk))
                   = Fail(interp, HandleToken(interp, NextToken(tk)).err)
            /\ running => ~RunStep(interp, NextToken(tk)).running

\* `@: X 1 : X` has been run: the error is raised, the memo X with its body
\* of one word is still the definition being compiled
StartWhileCompilingWitness ==
    /\ script = MemoScript
    /\ ntokens = 3
    /\ ~running
    /\ interp.err.kind = "MissingSemicolon"
    /\ interp.isCompiling
    /\ interp.isMemoDefinition
    /\ interp.curDefinition.name = "X"
    /\ Len(interp.curDefinition.words) = 1
    /\ interp.previousToken.type = "WORD"

\* the END_DEF token handled now
EndDefNow == HandleToken(interp, NextToken(T("END_DEF", ";")))

\* C18: out of compile mode, also when a definition was completed before, an
\* END_DEF token yields the extra-terminator error, located at the token; it
\* ends the Run and installs nothing: every module dictionary and every memo
\* is as before
ExtraTerminatorFails ==
    ~interp.isCompiling
        => /\ EndDefNow.err.class = "error"
           /\ EndDefNow.err.kind = "ExtraSemicolon"
           /\ EndDefNow.err.loc = TokenizerLocation(interp) + 1
           /\ EndDefNow.mods = interp.mods
           /\ EndDefNow.memos = interp.memos
           /\ EndDefNow = Fail(interp, EndDefNow.err)
           /\ running => ~RunStep(interp, NextToken(T("END_DEF", ";"))).running

\* `;` has been run right after a definition was completed: the error is
\* raised and the definition is in the dictionary once
ExtraTerminatorWitness ==
    /\ ~running
    /\ interp.err.kind = "ExtraSemicolon"
    /\ interp.previousToken.type = "END_DEF"
    /\ interp.curDefinition # NoWord
    /\ Cardinality({i \in DOMAIN interp.mods[CurModule(interp)].words :
                       interp.mods[CurModule(interp)].words[i].name
                           = interp.curDefinition.name}) = 1

\* how many tokens of the type are among the tokens consumed
Consumed(type) == Cardinality({i \in 1..ntokens : \E tk \in script[i] : tk.type = type})

\* the START_ARRAY sentinels on the operand stack
Sentinels == {i \in DOMAIN interp.stack : interp.stack[i].t = "token"}

\* C19: an array literal [ v1 .. vn ] of literals and nested array literals,
\* run from the empty stack, leaves exactly one value: the sequence of
\* v1 .. vn in source order, nested arrays as sequences in turn.  On the way
\* every END_ARRAY takes away exactly one sentinel, the nearest, so the stack
\* holds one sentinel per array still open and none at the end.
ArrayRoundTrip ==
    ntokens >= 1
        => /\ running
           /\ ~Failed(interp)
           /\ Cardinality(Sentinels) = Consumed("START_ARRAY") - Consumed("END_ARRAY")
           /\ ntokens = Len(script)
                  => /\ Len(interp.stack) = 1
                     /\ interp.stack[1].t = "arr"
                     /\ ScriptOf(interp.stack[1]) = script

\* [ [ "A" 1 ] 1 ] has been run: the stack holds the one nested sequence
ArrayRoundTripWitness ==
    /\ script = ScriptOf(ArrV(<<ArrV(<<StrV("A"), IntV(1)>>), IntV(1)>>))
    /\ ntokens = Len(script)
    /\ interp.stack = <<ArrV(<<ArrV(<<StrV("A"), IntV(1)>>), IntV(1)>>)>>
    /\ interp.previousToken.type = "END_ARRAY"

\* the END_ARRAY token run now
EndArrayNow == RunStep(interp, NextToken(T("END_ARRAY", "]"))).st

\* C20: an END_ARRAY executed with no START_ARRAY sentinel on the operand
\* stack makes Run return the stack underflow to its caller as an error value
EndArrayUnderflowReturned ==
    (running /\ ~interp.isCompiling /\ Sentinels = {})
        => /\ EndArrayNow.err.kind = "StackUnderflow"
           /\ EndArrayNow.err.class = "error"
           /\ EndArrayNow.tokenizerStack = Front(interp.tokenizerStack)

\* the marks the first n handlers of the list leave when invoked in order
Marks(handlers, n) == [k \in 1..n |-> [t |-> "mark", v |-> handlers[k].mark]]

\* the handlers of the list that answer "handled"
Handling(handlers) == {k \in DOMAIN handlers : handlers[k].answer = "handled"}

\* the Native words of the host in the dictionary whose function is f
NativeWords(f) ==
    {w \in {HostWords(interp)[i] : i \in DOMAIN HostWords(interp)} :
        w.kind = "native" /\ w.handler = f}

\* C21: a Native word whose function fails with an error that is no
\* intentional stop invokes its handlers one at a time in registration order
\* up to the first that answers handled; then no later handler is invoked and
\* the word returns no error; when none handles it, all handlers have been
\* invoked and the word returns the original error.  A word that does not
\* fail invokes none.
HandlersInOrder ==
    \A S \in TryStacks :
        /\ \A w \in NativeWords("fail") :
               IF Handling(w.errorHandlers) = {}
               THEN /\ Execute(w, From(S)).stack
                           = S \o Marks(w.errorHandlers, Len(w.errorHandlers))
                    /\ Execute(w, From(S)).err = Error("Test", "")
               ELSE /\ Execute(w, From(S)).stack
                           = S \o Marks(w.errorHandlers, MinOf(Handling(w.errorHandlers)))
                    /\ Execute(w, From(S)).err = NoErr
        /\ \A w \in NativeWords("mark") : Execute(w, From(S)) = StackPush(From(S), StrV("A"))

\* W fails and has three handlers, of which the second and the third handle
\* the error; `W "A"` has been run: the first two handlers were invoked, the
\* third was not, and the Run went on to the string
HandlersInOrderWitness ==
    /\ HostWords(interp) # <<>>
    /\ TopWord(interp).kind = "native"
    /\ TopWord(interp).handler = "fail"
    /\ Len(TopWord(interp).errorHandlers) = 3
    /\ Handling(TopWord(interp).errorHandlers) = {2, 3}
    /\ interp.stack = Marks(TopWord(interp).errorHandlers, 2) \o <<StrV("A")>>
    /\ ~Failed(interp)

RECURSIVE Innermost(_)
\* the function of the Native word at the bottom of the nesting of a host word
Innermost(w) == IF w.kind = "native" THEN w.handler ELSE Innermost(w.words[1])

RECURSIVE Depth(_)
\* how many Definitions are around the Native word
Depth(w) == IF w.kind = "native" THEN 0 ELSE 1 + Depth(w.words[1])

RECURSIVE AllHandlers(_)
\* the handlers of the word and of every word nested in it
AllHandlers(w) ==
    IF w.kind = "native" THEN w.errorHandlers
    ELSE w.errorHandlers \o AllHandlers(w.words[1])

\* the words of the host that stop intentionally
StoppingWords ==
    {w \in {HostWords(interp)[i] : i \in DOMAIN HostWords(interp)} : Innermost(w) = "stop"}

\* C22: an intentional stop raised by a Native word, alone or as a body word
\* of Definitions at any depth, invokes no handler of the word or of any
\* enclosing word and is what the word returns, with nothing else changed:
\* the rest of each body is not executed.  It is what Run returns, and the
\* tokens after the word are not handled.
IntentionalStopBypasses ==
    \A S \in TryStacks :
        /\ \A w \in StoppingWords :
               Execute(w, From(S)) = Fail(From(S), Error("IntentionalStop", ""))
        /\ (HostWords(interp) # <<>> /\ TopWord(interp) \in StoppingWords)
               => /\ Run(From(S), <<T("WORD", "W"), T("STRING", "A"), T("EOS", "")>>).stack = S
                  /\ Run(From(S), <<T("WORD", "W"), T("STRING", "A"), T("EOS", "")>>).err
                         = Error("IntentionalStop", "")
                  /\ Run(From(S), <<T("WORD", "W"), T("STRING", "A"), T("EOS", "")>>).previousToken
                         = interp.previousToken

\* W is a Definition around a Native word that stops; both have a handler
\* that would handle an error; `W "A"` has been run and has returned the
\* stop with the stack empty
IntentionalStopWitness ==
    /\ HostWords(interp) # <<>>
    /\ TopWord(interp) \in StoppingWords
    /\ Depth(TopWord(interp)) >= 1
    /\ TopWord(interp).errorHandlers # <<>>
    /\ TopWord(interp).words[1].errorHandlers # <<>>
    /\ Handling(AllHandlers(TopWord(interp))) = DOMAIN AllHandlers(TopWord(interp))
    /\ interp.err = Error("IntentionalStop", "")
    /\ interp.stack = <<>>

\* C23: whichever token the input offers next, an error its handling ends
\* the Run with (unknown word, failing native word, missing or extra
\* terminator) carries the location of that token
ErrorCarriesTokenLocation ==
    \A tk \in Offered :
        RunStep(interp, NextToken(tk)).st.err.class = "error"
            => RunStep(interp, NextToken(tk)).st.err.loc = TokenizerLocation(interp) + 1

\* the names of the modules a START_MODULE token may carry
StartModuleNames == {"m", "mod", "n"}

\* the module `{name` finds under the current module, r being the
\* interpreter after `{name`: it is pushed and nothing else changes
Reentered(name, r) ==
    /\ r.moduleStack = Append(interp.moduleStack,
                              interp.mods[CurModule(interp)].modules[name])
    /\ r.mods = interp.mods
    /\ r.registeredMods = interp.registeredMods

\* the module `{name` creates under the current module, r being the
\* interpreter after `{name`: it is new, empty, a child of the current module,
\* pushed, and in the registry exactly when the current module is the app module
Created(name, r) ==
    /\ Len(r.mods) = Len(interp.mods) + 1
    /\ r.mods[Len(r.mods)] = NewModule(name)
    /\ r.moduleStack = Append(interp.moduleStack, Len(r.mods))
    /\ r.mods[CurModule(interp)].modules
           = Put(interp.mods[CurModule(interp)].modules, name, Len(r.mods))
    /\ \A i \in DOMAIN interp.mods : i # CurModule(interp) => r.mods[i] = interp.mods[i]
    /\ r.mods[CurModule(interp)].words = interp.mods[CurModule(interp)].words
    /\ IF CurModule(interp) = interp.appModule
       THEN r.registeredMods = Put(interp.registeredMods, name, Len(r.mods))
       ELSE r.registeredMods = interp.registeredMods

\* C24: `{name` with a name that is not empty pushes the child of the current
\* module registered under the name; the child is created only when there is
\* none, so that a second visit finds the module of the first with its
\* definitions; a created module enters the registry of the interpreter if
\* and only if the current module is the app module
StartModuleReusesOrCreates ==
    \A name \in StartModuleNames :
        /\ Execute(StartModuleWord(name), From(interp.stack)).err = NoErr
        /\ IF name \in DOMAIN interp.mods[CurModule(interp)].modules
           THEN Reentered(name, Execute(StartModuleWord(name), From(interp.stack)))
           ELSE Created(name, Execute(StartModuleWord(name), From(interp.stack)))

\* `{m : POP ; } {m` has been run: the module on top is the one created by the
\* first `{m`, the only module named m, and the definition made in the first
\* visit is found in it
StartModuleWitness ==
    /\ ntokens = 5
    /\ interp.err = NoErr
    /\ interp.previousToken.type = "START_MODULE"
    /\ interp.previousToken.string = "m"
    /\ Len(interp.moduleStack) = 2
    /\ CurModule(interp) = interp.mods[interp.appModule].modules["m"]
    /\ interp.registeredMods["m"] = CurModule(interp)
    /\ Cardinality({i \in DOMAIN interp.mods : interp.mods[i].name = "m"}) = 1
    /\ FindDictionaryWord(interp.mods[CurModule(interp)], "POP").kind = "def"

\* the word of the first handler of the list that accepts the name
FirstAccepting(handlers, name) ==
    IF \A i \in DOMAIN handlers : ApplyHandler(handlers[i], name) = NoValue THEN NoWord
    ELSE PushValueWord(name,
             ApplyHandler(handlers[MinOf({i \in DOMAIN handlers :
                                             ApplyHandler(handlers[i], name) # NoValue})],
                          name))

\* the handlers registered by the host, the newest first
Registered == SubSeq(interp.literalHandlers, 1, Len(interp.literalHandlers) - 6)

\* the result of `name` run now on the stack S
LiteralRunOn(S, name) == Run(From(S), <<T("WORD", name), T("EOS", "")>>)

\* C25: the search of the literal handlers takes the first handler of the
\* list that accepts the input.  The list is the handlers of the host, the
\* newest first, followed by the built-in handlers in the order boolean,
\* float, zoned datetime, date, time, integer: a handler just registered
\* decides every input it accepts, whatever was registered before, and leaves
\* the other inputs as they were; an input accepted by two built-in handlers
\* has the value of the first of them.  Run pushes that value, or fails with
\* UnknownWord when no handler accepts the input.
LiteralHandlerOrder ==
    /\ interp.literalHandlers = Registered \o StandardLiterals
    /\ \A i \in DOMAIN Registered : Registered[i] \in CustomHandlers
    /\ \A name \in LiteralLexemes :
           /\ FindLiteralWord(interp, name) = FirstAccepting(interp.literalHandlers, name)
           /\ \A i, j \in DOMAIN StandardLiterals :
                  (/\ i < j
                   /\ ApplyHandler(StandardLiterals[i], name) # NoValue
                   /\ ApplyHandler(StandardLiterals[j], name) # NoValue
                   /\ ToCustom("ToTruth", name) = NoValue
                   /\ ToCustom("ToOverride", name) = NoValue)
                      => FindLiteralWord(interp, name).value
                             = ApplyHandler(StandardLiterals[i], name)
           /\ \A h \in CustomHandlers :
                  FindLiteralWord(RegisterLiteralHandler(interp, h), name)
                      = IF name \in CustomLexemes(h)
                        THEN PushValueWord(name, [t |-> "custom", v |-> h])
                        ELSE FindLiteralWord(interp, name)
           /\ \A S \in {<<>>, interp.stack} :
                  IF FirstAccepting(interp.literalHandlers, name) = NoWord
                  THEN /\ LiteralRunOn(S, name).err = Error("UnknownWord", name)
                       /\ LiteralRunOn(S, name).stack = S
                  ELSE /\ LiteralRunOn(S, name).err = NoErr
                       /\ LiteralRunOn(S, name).stack
                              = Append(S, FirstAccepting(interp.literalHandlers, name).value)

\* ToTruth was registered, then ToOverride, and TRUE has been run: the three
\* handlers accept it and the value on the stack is that of ToOverride
LiteralHandlerWitness ==
    /\ interp.literalHandlers = <<"ToOverride", "ToTruth">> \o StandardLiterals
    /\ ToBool("TRUE") # NoValue
    /\ interp.err = NoErr
    /\ interp.stack = <<[t |-> "custom", v |-> "ToOverride"]>>
    /\ interp.previousToken.string = "TRUE"

\* the order of locations: by line, then by column
LocationLeq(a, b) == a.line < b.line \/ (a.line = b.line /\ a.column <= b.column)

\* C26: the locations of the tokens NextToken has returned, EOS included,
\* never decrease from one token to the next
LocationMonotonicity ==
    \A i \in DOMAIN returned :
        i > 1 => LocationLeq(returned[i - 1].location, returned[i].location)

\* the delimiter of the triple-quoted string the input opens, and what
\* follows the three opening delimiters
Delimiter == tokenizer.inputString[1]
Quoted == SubSeq(tokenizer.inputString, 4, Len(tokenizer.inputString))

\* the positions of Quoted where a run of three delimiters begins that no
\* fourth delimiter follows
Closers ==
    {p \in 1..(Len(Quoted) - 2) :
        /\ Quoted[p] = Delimiter
        /\ Quoted[p + 1] = Delimiter
        /\ Quoted[p + 2] = Delimiter
        /\ p + 3 <= Len(Quoted) => Quoted[p + 3] # Delimiter}

\* C27: a triple-quoted string ends at the first run of three delimiters
\* that is not followed by a fourth: the lexeme is everything before that
\* run, delimiters included, and the tokenizer is left right after the run;
\* with no such run the string is unterminated
TripleQuoteGreedy ==
    (returned # <<>> \/ tokenizerErr # NoErr)
        => IF Closers = {}
           THEN /\ returned = <<>>
                /\ tokenizerErr.arg = "Unterminated string"
           ELSE /\ returned[1].type = "STRING"
                /\ returned[1].string = SubSeq(Quoted, 1, MinOf(Closers) - 1)
                /\ (Len(returned) = 1 /\ tokenizerErr = NoErr)
                       => tokenizer.inputPos = MinOf(Closers) + 5

\* eight double quotes have been tokenized: of the five that follow the
\* opening three, the first two are the content and the last three close it
TripleQuoteGreedyWitness ==
    /\ tokenizer.inputString = <<"\"", "\"", "\"", "\"", "\"", "\"", "\"", "\"">>
    /\ Len(returned) = 2
    /\ returned[1].type = "STRING"
    /\ returned[1].string = <<"\"", "\"">>
    /\ returned[2].type = "EOS"

\* the inputs of the example: three double quotes, a, and four or six
\* double quotes
FourQuotes == <<"\"", "\"", "\"", "a", "\"", "\"", "\"", "\"">>
SixQuotes == FourQuotes \o <<"\"", "\"">>

\* C28 as stated: three double quotes, a and four double quotes make one
\* STRING token whose lexeme is the four characters a and three double quotes
TripleQuoteExample ==
    (tokenizer.inputString = FourQuotes /\ returned # <<>>)
        => /\ returned[1].type = "STRING"
           /\ returned[1].string = <<"a", "\"", "\"", "\"">>

\* C28, amended: three double quotes, a and four double quotes make one
\* STRING token whose lexeme is the two characters a and one double quote,
\* the last three quotes being the closer, and EOS follows; the lexeme of
\* four characters, a and three double quotes, is that of the input with six
\* double quotes after a
TripleQuoteExampleShort ==
    /\ tokenizer.inputString \in {FourQuotes, SixQuotes}
           => /\ tokenizerErr = NoErr
              /\ Len(returned) <= 2
              /\ Len(returned) = 2 => returned[2].type = "EOS"
    /\ (tokenizer.inputString = FourQuotes /\ returned # <<>>)
           => /\ returned[1].type = "STRING"
              /\ returned[1].string = <<"a", "\"">>
    /\ (tokenizer.inputString = SixQuotes /\ returned # <<>>)
           => /\ returned[1].type = "STRING"
              /\ returned[1].string = <<"a", "\"", "\"", "\"">>

\* the input with four double quotes after a has been tokenized to its end
TripleQuoteExampleWitness ==
    /\ tokenizer.inputString = FourQuotes
    /\ tokenizer.inputPos = 8
    /\ Len(returned) = 2
    /\ returned[1].location.endPos - returned[1].location.startPos = 2
    /\ tokenizerErr = NoErr

\* the characters that end a word of the word inputs
WordEnds == {" ", "[", "]"}

\* the position of the first character of the input, from position from on,
\* that is in the set, or one past the end of the input
FirstIn(set, from) ==
    MinOf({i \in from..Len(tokenizer.inputString) : tokenizer.inputString[i] \in set}
              \cup {Len(tokenizer.inputString) + 1})

\* the input begins with a word that a [ ends, and the word has a T or not
BracketAfterWord ==
    /\ tokenizer.inputString # <<>>
    /\ tokenizer.inputString[1] \notin WordEnds
    /\ FirstIn(WordEnds, 1) <= Len(tokenizer.inputString)
    /\ tokenizer.inputString[FirstIn(WordEnds, 1)] = "["
HasT == \E i \in 1..(FirstIn(WordEnds, 1) - 1) : tokenizer.inputString[i] = "T"

\* C29: a [ met while a word is gathered ends the word and is the next token,
\* unless the word gathered so far has a T: then the [ and everything up to
\* and including the next ] belong to the word, which ends there, so that the
\* datetime with a named timezone is one WORD
WordBracket ==
    /\ (BracketAfterWord /\ returned # <<>>)
           => /\ returned[1].type = "WORD"
              /\ IF HasT
                 THEN /\ returned[1].string
                             = SubSeq(tokenizer.inputString, 1,
                                      MinOf({FirstIn({"]"}, FirstIn(WordEnds, 1)),
                                             Len(tokenizer.inputString)}))
                      /\ (Len(returned) = 1 /\ tokenizerErr = NoErr)
                             => tokenizer.inputPos = Len(returned[1].string)
                 ELSE /\ returned[1].string
                             = SubSeq(tokenizer.inputString, 1, FirstIn(WordEnds, 1) - 1)
                      /\ Len(returned) >= 2
                             => /\ returned[2].type = "START_ARRAY"
                                /\ returned[2].location.startPos = FirstIn(WordEnds, 1) - 1
    /\ (tokenizer.inputString = ZonedDateTimeInput /\ returned # <<>>)
           => /\ returned[1] = Token("WORD", ZonedDateTimeInput,
                                     [line |-> 1, column |-> 1, startPos |-> 0,
                                      endPos |-> 40])
              /\ Len(returned) = 2 => returned[2].type = "EOS"
              /\ Len(returned) <= 2

\* the datetime with a named timezone has been tokenized to its end: one
\* WORD, then EOS
WordBracketWitness ==
    /\ tokenizer.inputString = ZonedDateTimeInput
    /\ Len(returned) = 2
    /\ returned[1].type = "WORD"
    /\ Len(returned[1].string) = 40
    /\ returned[2].type = "EOS"

\* no module of the interpreter has a variable whose name begins with __
DunderFree(st) ==
    \A mi \in DOMAIN st.mods : DOMAIN st.mods[mi].variables \cap DunderNames = {}

\* the core word W executed now with the operands on top of the stack
ExecutedOn(W, operands) == Execute(FindWord(interp, W), From(interp.stack \o operands))

\* arrays of names with the name n among them, and other elements before or
\* after it
ArraysWith(n) ==
    {<<StrV(n)>>, <<StrV("x"), StrV(n)>>, <<StrV(n), StrV("y")>>, <<IntV(1), StrV(n)>>}

\* r is the interpreter after `!`, `@` or `!@` was given the name n: the word
\* has failed, its operands are popped and every module is as it was
Rejected(r, n) ==
    /\ r.err = Error("InvalidVariableName", n)
    /\ r.mods = interp.mods
    /\ r.stack = interp.stack

\* r is the interpreter after VARIABLES was given the array of the items, n
\* among them: the word has failed, the array is popped, the variables named
\* before n exist and no other was created
RejectedOf(r, items, n) ==
    /\ r.err = Error("InvalidVariableName", n)
    /\ r.stack = interp.stack
    /\ DunderFree(r)
    /\ \A mi \in DOMAIN r.mods :
           DOMAIN r.mods[mi].variables
               = DOMAIN interp.mods[mi].variables
                     \cup (IF mi = CurModule(interp) /\ items[1] = StrV("x")
                           THEN {"x"} ELSE {})

\* C30: no module ever has a variable whose name begins with __: `!`, `@`
\* and `!@` given such a name, and VARIABLES given an array with such a name,
\* fail with InvalidVariableName for the name after they have popped their
\* operands; `!`, `@` and `!@` leave every module as it was, VARIABLES has
\* created the variables named before the rejected name and none after it
InvalidVariableNames ==
    /\ DunderFree(interp)
    /\ \A n \in DunderNames :
           /\ Rejected(ExecutedOn("!", <<IntV(1), StrV(n)>>), n)
           /\ Rejected(ExecutedOn("!@", <<IntV(1), StrV(n)>>), n)
           /\ Rejected(ExecutedOn("@", <<StrV(n)>>), n)
           /\ \A items \in ArraysWith(n) :
                  RejectedOf(ExecutedOn("VARIABLES", <<ArrV(items)>>), items, n)

\* `[ "x" "__x" ] VARIABLES` has been run: it has failed for __x after x was
\* created, and no module has a variable __x
InvalidVariableNamesWitness ==
    /\ ~running
    /\ ntokens = 5
    /\ interp.err = Error("InvalidVariableName", "__x")
    /\ interp.previousToken.type = "END_ARRAY"
    /\ interp.stack = <<>>
    /\ DOMAIN interp.mods[interp.appModule].variables = {"x"}
    /\ DunderFree(interp)

\* the names of variables that `!`, `@` and `!@` are given
FreshNames == {"x", "y"}

\* r is the interpreter after `!`, `@` or `!@` was given the name n that the
\* current module did not have: the word has succeeded, the stack is S, the
\* current module has the variable n with the value and is otherwise as it
\* was, and every other module is as it was
AutoCreated(r, n, value, S) ==
    /\ r.err = NoErr
    /\ r.stack = S
    /\ DOMAIN r.mods = DOMAIN interp.mods
    /\ \A mi \in DOMAIN r.mods \ {CurModule(interp)} : r.mods[mi] = interp.mods[mi]
    /\ r.mods[CurModule(interp)]
           = [interp.mods[CurModule(interp)] EXCEPT !.variables = Put(@, n, value)]

\* C31: `!`, `@` and `!@` given a name that is no variable of the current
\* module create the variable in the module on top of the module stack and
\* in no other module; its value is null until it is set: `@` pushes null,
\* `!` and `!@` store their value in it
AutoCreateInCurrentModule ==
    \A n \in FreshNames :
        n \notin DOMAIN interp.mods[CurModule(interp)].variables
            => /\ AutoCreated(ExecutedOn("!", <<IntV(1), StrV(n)>>), n, IntV(1),
                              interp.stack)
               /\ AutoCreated(ExecutedOn("@", <<StrV(n)>>), n, Null,
                              Append(interp.stack, Null))
               /\ AutoCreated(ExecutedOn("!@", <<IntV(1), StrV(n)>>), n, IntV(1),
                              Append(interp.stack, IntV(1)))

\* `{m "x" @` has been run: x is a variable of m with the value null, null
\* is on the stack, and the app module has no variable
AutoCreateWitness ==
    /\ running
    /\ ntokens = 3
    /\ interp.err = NoErr
    /\ Len(interp.moduleStack) = 2
    /\ CurModule(interp) # interp.appModule
    /\ interp.mods[CurModule(interp)].name = "m"
    /\ interp.mods[CurModule(interp)].variables = Put(EmptyMap, "x", Null)
    /\ DOMAIN interp.mods[interp.appModule].variables = {}
    /\ interp.stack = <<Null>>

\* the positions of the flat array where the key k stands as a key
Occurrences(arr, k) == {i \in DOMAIN arr : i % 2 = 1 /\ arr[i] = StrV(k)}

\* the flat array has an even length and a string at every key position
KeyValuePairs(arr) ==
    /\ Len(arr) % 2 = 0
    /\ \A i \in DOMAIN arr : i % 2 = 1 => arr[i].t = "str"

\* the value paired with the last occurrence of the key k, or the value
\* otherwise when k does not occur
LastPaired(arr, k, otherwise) ==
    IF Occurrences(arr, k) = {} THEN otherwise
    ELSE arr[MaxOf(Occurrences(arr, k)) + 1]

\* the keys asked for: those of the arrays and one that is in none
AskedKeys == OptionKeys \cup {"other"}

\* C32: the WordOptions made from an even-length flat array of string keys
\* and values maps each key to the value paired with its last occurrence;
\* Has(k) is true exactly for the keys that occur, also when the paired
\* value is null; Get(k, d) returns the paired value for a key that occurs
\* and d (null without d) for a key that does not, and so the calls of the
\* caller have returned
OptionsLastWins ==
    (/\ outcome # NoOutcome
     /\ argument.t = "arr"
     /\ KeyValuePairs(argument.v))
        => /\ wordOptions.made
           /\ \A k \in AskedKeys :
                  /\ WordOptionsHas(wordOptions, k) <=> Occurrences(argument.v, k) # {}
                  /\ WordOptionsGet(wordOptions, k, <<>>) = LastPaired(argument.v, k, Null)
                  /\ WordOptionsGet(wordOptions, k, <<StrV("default")>>)
                         = LastPaired(argument.v, k, StrV("default"))
                  /\ WordOptionsGet(wordOptions, k, <<StrV("default")>>) = StrV("default")
                         <=> Occurrences(argument.v, k) = {}
           /\ outcome.call[1] = "Has"
                  => outcome.value = BoolV(Occurrences(argument.v, outcome.call[2]) # {})
           /\ outcome.call[1] = "Get"
                  => outcome.value
                         = LastPaired(argument.v, outcome.call[2],
                                      IF outcome.call[3] = <<>> THEN Null
                                      ELSE outcome.call[3][1])

\* the flat array [depth 2 depth null] was made into a WordOptions and asked
\* for depth with a default: the answer is the null of the later pair
OptionsLastWinsWitness ==
    /\ argument = ArrV(<<StrV("depth"), IntV(2), StrV("depth"), Null>>)
    /\ wordOptions.made
    /\ WordOptionsHas(wordOptions, "depth")
    /\ ~WordOptionsHas(wordOptions, "key")
    /\ outcome.call = <<"Get", "depth", <<StrV("default")>> >>
    /\ outcome.value = Null

\* C33: after Run has returned an error the interpreter is not compiling,
\* so that a later Run executes its words instead of appending them to the
\* definition the failed Run left open
RunErrorEndsCompiling ==
    (~running /\ interp.err.class = "error") => ~interp.isCompiling

\* the number of calls of Run in progress: the host's call, no word of the
\* model calls Run
RunsInProgress == IF running THEN 1 ELSE 0

\* C34: in every state the depth of the lexer stack is the number of calls
\* of Run in progress: a call that has ended, normally, with an error or with
\* a panic, has left the depth as it was when the call started
LexerStackDepth == Len(interp.tokenizerStack) = RunsInProgress

\* the Definitions among the words of the host
HostDefinitions ==
    {w \in {HostWords(interp)[i] : i \in DOMAIN HostWords(interp)} : w.kind = "def"}

\* s1 is the interpreter after body word k of the Definition w has failed
\* with an error that is no intentional stop, and a handler of w handles it
HandledFailure(w, s1) ==
    /\ s1.err.class = "error"
    /\ s1.err.kind # "IntentionalStop"
    /\ Handling(w.errorHandlers) # {}

\* the interpreter after the handlers of w up to the first that handles the
\* error were invoked on s1, with the error gone
HandlersDone(w, s1) ==
    [s1 EXCEPT !.err = NoErr,
               !.stack = @ \o Marks(w.errorHandlers, MinOf(Handling(w.errorHandlers)))]

\* w executed from body word k on does what its body from word k + 1 on
\* does after the handlers, when word k has led to s1
ContinuesAfter(w, k, s1) ==
    HandledFailure(w, s1) => ExecuteWords(w, k, From(interp.stack))
                                 = ExecuteWords(w, k + 1, HandlersDone(w, s1))

\* C35: when body word k of a Definition fails with an error that is no
\* intentional stop and a handler of the Definition handles it, the
\* execution goes on with body word k + 1 on the interpreter the handlers
\* have left: the rest of the body runs, its failures are given to the
\* handlers again, and the Definition returns what the rest returns
HandledErrorContinues ==
    \A w \in HostDefinitions :
        \A k \in DOMAIN w.words :
            ContinuesAfter(w, k, Execute(w.words[k], From(interp.stack)))

\* W is a Definition of a failing Native word, a push and the Native word
\* again, with one handler that handles the error; `W "A"` has been run: the
\* handler was invoked for the first failure, 1 was pushed, the handler was
\* invoked again for the second failure, and the Run went on to the string
HandledErrorWitness ==
    /\ HostWords(interp) # <<>>
    /\ TopWord(interp).kind = "def"
    /\ Len(TopWord(interp).words) = 3
    /\ TopWord(interp).words[1].kind = "native"
    /\ TopWord(interp).words[1].handler = "fail"
    /\ TopWord(interp).words[1].errorHandlers = <<>>
    /\ Len(TopWord(interp).errorHandlers) = 1
    /\ Handling(TopWord(interp).errorHandlers) = {1}
    /\ interp.stack = Marks(TopWord(interp).errorHandlers, 1) \o <<IntV(1)>>
                          \o Marks(TopWord(interp).errorHandlers, 1) \o <<StrV("A")>>
    /\ ~Failed(interp)

\* the interpreter st with the operand stack S and no failure behind it
On(st, S) == [st EXCEPT !.stack = S, !.err = NoErr]

\* the word the END_DEF of the step has installed under the name
NewlyInstalled(word) ==
    IF interp.isMemoDefinition
    THEN /\ word.kind = "memo"
         /\ word.cell = Len(interp'.memos)
         /\ interp'.memos[word.cell].word = interp.curDefinition
    ELSE word = interp.curDefinition

\* the words of the current module's dictionary before the step
WordsBefore == interp.mods[CurModule(interp)].words

\* C36: the END_DEF that installs a definition NAME makes the token NAME
\* resolve to the new word, and every word that was in the dictionary before
\* it, the definitions that refer to NAME among them, behaves as before: from
\* every operand stack it leaves the same stack and the same failure
DefinitionsKeepTheirWords ==
    [][(interp.isCompiling /\ ~interp'.isCompiling /\ ~Failed(interp'))
           => /\ NewlyInstalled(FindWord(interp', interp.curDefinition.name))
              /\ \A i \in DOMAIN WordsBefore :
                     \A S \in TryStacks :
                         Outcome(Execute(interp'.mods[CurModule(interp)].words[i],
                                         On(interp', S)))
                             = Outcome(Execute(WordsBefore[i], On(interp, S)))]_vars

\* `: A 1 ; : B A A ; : A "A" ;` and then B have been run: B has pushed 1
\* twice, as the A it was compiled with does, while the token A now resolves
\* to the definition that pushes "A"
DefinitionsKeepWitness ==
    /\ script = RedefineScript
    /\ running
    /\ ntokens = 11
    /\ ~Failed(interp)
    /\ interp.previousToken.type = "WORD"
    /\ interp.previousToken.string = "B"
    /\ interp.stack = <<IntV(1), IntV(1)>>
    /\ FindWord(interp, "A") = DefinitionWord("A", <<PushValueWord("<string>", StrV("A"))>>)
    /\ FindWord(interp, "B")
           = DefinitionWord("B", <<DefinitionWord("A", <<PushValueWord("1", IntV(1))>>),
                                   DefinitionWord("A", <<PushValueWord("1", IntV(1))>>)>>)

\* C37: in every state, a module that `{name` has created from the app
\* module (a registered module that the host did not import) is one module: the module `{name` enters from the app module and
\* the module that FindModule(name) and USE-MODULES resolve are the same
ModuleIdentity ==
    \A name \in DOMAIN interp.registeredMods \ DOMAIN NewInterpreter.registeredMods :
        name \in DOMAIN interp.mods[interp.appModule].modules
            => interp.mods[interp.appModule].modules[name] = interp.registeredMods[name]

\* r is the interpreter after VARIABLES was given an array with the name n:
\* the word has failed and the variables of every module are as they were
NoneCreated(r, n) ==
    /\ r.err = Error("InvalidVariableName", n)
    /\ \A mi \in DOMAIN r.mods : r.mods[mi].variables = interp.mods[mi].variables

\* C38: VARIABLES given an array with a name that begins with __ fails
\* without creating a variable of the array, wherever the name stands in it:
\* the variable table of the current module is as it was before
VariablesAllOrNothing ==
    \A n \in DunderNames :
        \A items \in ArraysWith(n) :
            NoneCreated(ExecutedOn("VARIABLES", <<ArrV(items)>>), n)

\* the text has the form H:MM, H:MM AM or H:MM PM; the hour and the minute
\* as they are written in it
TimeForm(text) == MatchTime(text).matched
WrittenHour(text) == Atoi(MatchTime(text).hours)
WrittenMinute(text) == Atoi(MatchTime(text).minutes)

\* C39: ToTime accepts a text of the form H:MM, H:MM AM or H:MM PM exactly
\* when the hour and the minute written in it satisfy 0 <= H <= 23 and
\* 0 <= M < 60, and reports no match for every other text
TimeOfDayRange ==
    outcome.call = <<"ToTime">>
        => (outcome.value # NoValue
                <=> /\ TimeForm(argument)
                    /\ WrittenHour(argument) <= 23
                    /\ WrittenMinute(argument) < 60)

\* the source text opens a string with one delimiter, not three
SingleQuoted ==
    /\ argument[1] \in QuoteChars
    /\ ~(Len(argument) >= 3 /\ argument[2] = argument[1] /\ argument[3] = argument[1])

\* the positions after the first where the opening delimiter stands again
ClosingPositions == {i \in 2..Len(argument) : argument[i] = argument[1]}

\* C40: the lexeme of the STRING token of a string opened with one
\* delimiter is the source text between the opening delimiter and the first
\* following occurrence of that delimiter, byte for byte, for texts with
\* multi-byte characters too
StringLexemeExact ==
    (SingleQuoted /\ ClosingPositions # {} /\ returned # <<>>)
        => /\ returned[1].type = "STRING"
           /\ returned[1].string
                  = Utf8Text(SubSeq(argument, 2, MinOf(ClosingPositions) - 1))

====
